---- MODULE Spec2Model ----
(***************************************************************************)
(* State-machine model of the hzgrow-r502 driver (src/src/driver.rs,       *)
(* commands.rs, responses.rs, utils.rs): packet framing, checksum,         *)
(* per-command payload encoding, the blocking send/receive cycle of        *)
(* send_command and the reply dispatch of parse_reply.                     *)
(*                                                                         *)
(* Bytes are naturals 0..255.  A u16 is a natural 0..65535.  A u32 is held *)
(* as its two 16-bit halves [hi, lo] (value hi * 2^16 + lo), because the   *)
(* model checker's integers are 32-bit signed and 0xFFFFFFFF, the default  *)
(* device address, does not fit.  Rust slices payload[a..b] are 0-based    *)
(* and half open; sequences here are 1-based.                              *)
(***************************************************************************)
EXTENDS Integers, Sequences, FiniteSets, TLC

\* ------------------------------------------------------------------ bytes

U32(h, l) == [hi |-> h, lo |-> l]

\* Variant of u16::to_be_bytes: the low byte first
u16_to_le_bytes(v) == << v % 256, v \div 256 >>

\* u16::to_be_bytes
u16_to_be_bytes(v) == << v \div 256, v % 256 >>

\* u32::to_be_bytes
u32_to_be_bytes(u) == u16_to_be_bytes(u.hi) \o u16_to_be_bytes(u.lo)

\* BigEndian::read_u16(&buf): the first two bytes of the slice it is given
read_u16(s) == s[1] * 256 + s[2]

\* BigEndian::read_u32(&buf): the first four bytes of the slice it is given
read_u32(s) == U32(s[1] * 256 + s[2], s[3] * 256 + s[4])

\* the slice payload[a..b] (0-based, half open); the caller checks b <= len
Slice(p, a, b) == SubSeq(p, a + 1, b)

\* payload[a..b] is in range (otherwise the index panics)
InRange(p, a, b) == a <= b /\ b <= Len(p)

\* ------------------------------------------------------------ constants

REPLY_HEADER_LENGTH == 9

CMD_BUFFER_CAPACITY == 128

RECEIVED_CAPACITY == 1024

\* ------------------------------------------------------------- commands

Tag(cmd) == cmd.tag

CommandTags ==
  { "ReadSysPara", "VfyPwd", "GenImg", "Img2Tz", "Search", "LoadChar",
    "Match", "TemplateNum", "RegModel", "Store", "DeletChar" }

ReadSysPara == [tag |-> "ReadSysPara"]
VfyPwd(password) == [tag |-> "VfyPwd", password |-> password]
GenImg == [tag |-> "GenImg"]
Img2Tz(buffer) == [tag |-> "Img2Tz", buffer |-> buffer]
Search(buffer, start_index, end_index) ==
  [tag |-> "Search", buffer |-> buffer, start_index |-> start_index,
   end_index |-> end_index]
LoadChar(buffer, index) == [tag |-> "LoadChar", buffer |-> buffer, index |-> index]
Match == [tag |-> "Match"]
TemplateNum == [tag |-> "TemplateNum"]
RegModel == [tag |-> "RegModel"]
Store(buffer, index) == [tag |-> "Store", buffer |-> buffer, index |-> index]
DeletChar(start_index, num_to_delete) ==
  [tag |-> "DeletChar", start_index |-> start_index,
   num_to_delete |-> num_to_delete]

\* Option<Command>
None == [some |-> FALSE]
Some(cmd) == [some |-> TRUE, cmd |-> cmd]

\* -------------------------------------------------------- command writer

\* The transmit buffer under construction: buf, and ok = FALSE once a
\* try_extend_from_slice(..).unwrap() has panicked on a full buffer.
EmptyWriter == [buf |-> << >>, ok |-> TRUE]

write_cmd_bytes(w, bytes) ==
  IF ~w.ok \/ Len(w.buf) + Len(bytes) > CMD_BUFFER_CAPACITY
    THEN [buf |-> w.buf, ok |-> FALSE]
    ELSE [buf |-> w.buf \o bytes, ok |-> TRUE]

\* Variant of length_of: the Store arm carries the length of DeletChar
length_of_drift(tag) ==
  CASE tag = "ReadSysPara" -> 3
    [] tag = "VfyPwd" -> 7
    [] tag = "GenImg" -> 3
    [] tag = "Img2Tz" -> 4
    [] tag = "Search" -> 8
    [] tag = "LoadChar" -> 6
    [] tag = "Match" -> 3
    [] tag = "TemplateNum" -> 3
    [] tag = "RegModel" -> 3
    [] tag = "Store" -> 7
    [] tag = "DeletChar" -> 7

\* Command::to_payload, the length bytes each arm writes after the packet
\* type: << 0x00, length_of >>
length_of(tag) ==
  CASE tag = "ReadSysPara" -> 3
    [] tag = "VfyPwd" -> 7
    [] tag = "GenImg" -> 3
    [] tag = "Img2Tz" -> 4
    [] tag = "Search" -> 8
    [] tag = "LoadChar" -> 6
    [] tag = "Match" -> 3
    [] tag = "TemplateNum" -> 3
    [] tag = "RegModel" -> 3
    [] tag = "Store" -> 6
    [] tag = "DeletChar" -> 7

\* Command::to_payload, the instruction byte each arm writes
opcode_of(tag) ==
  CASE tag = "ReadSysPara" -> 15
    [] tag = "VfyPwd" -> 19
    [] tag = "GenImg" -> 1
    [] tag = "Img2Tz" -> 2
    [] tag = "Search" -> 4
    [] tag = "LoadChar" -> 7
    [] tag = "Match" -> 3
    [] tag = "TemplateNum" -> 29
    [] tag = "RegModel" -> 5
    [] tag = "Store" -> 6
    [] tag = "DeletChar" -> 12

\* Variant of buffer_byte: values other than 1 are rewritten to slot 2
buffer_byte_slot(buffer) == IF buffer = 1 THEN 1 ELSE 2

\* The byte written for the buffer field of a command: &[*buffer]
buffer_byte(buffer) == buffer

\* Command::to_payload, the parameter writes of each arm, in order
write_params(cmd, w) ==
  CASE cmd.tag = "VfyPwd" -> write_cmd_bytes(w, u32_to_be_bytes(cmd.password))
    [] cmd.tag = "Img2Tz" -> write_cmd_bytes(w, << buffer_byte(cmd.buffer) >>)
    [] cmd.tag = "Search" ->
         write_cmd_bytes(
           write_cmd_bytes(write_cmd_bytes(w, << buffer_byte(cmd.buffer) >>),
                           u16_to_be_bytes(cmd.start_index)),
           u16_to_be_bytes(cmd.end_index))
    [] cmd.tag = "LoadChar" ->
         write_cmd_bytes(write_cmd_bytes(w, << buffer_byte(cmd.buffer) >>),
                         u16_to_be_bytes(cmd.index))
    [] cmd.tag = "Store" ->
         write_cmd_bytes(write_cmd_bytes(w, << buffer_byte(cmd.buffer) >>),
                         u16_to_be_bytes(cmd.index))
    [] cmd.tag = "DeletChar" ->
         write_cmd_bytes(write_cmd_bytes(w, u16_to_be_bytes(cmd.start_index)),
                         u16_to_be_bytes(cmd.num_to_delete))
    [] OTHER -> w

\* Command::to_payload: every arm writes the packet type 0x01, the two
\* length bytes, the instruction byte, then its parameters
to_payload(cmd, w) ==
  write_params(cmd,
    write_cmd_bytes(
      write_cmd_bytes(write_cmd_bytes(w, << 1 >>), << 0, length_of(cmd.tag) >>),
      << opcode_of(cmd.tag) >>))

\* Variant of write_header: the default address instead of the driver's
write_header_default(w, address) ==
  write_cmd_bytes(write_cmd_bytes(w, << 239, 1 >>), << 255, 255, 255, 255 >>)

\* R502::write_header
write_header(w, address) ==
  write_cmd_bytes(write_cmd_bytes(w, << 239, 1 >>), u32_to_be_bytes(address))

\* The loop of compute_checksum over cmd_buffer[6..len]: acc after adding
\* the bytes at 0-based offsets i .. len-1, as a u16 (wrapping addition).
RECURSIVE checksum_loop(_, _, _)
checksum_loop(buf, i, acc) ==
  IF i >= Len(buf) THEN acc
  ELSE checksum_loop(buf, i + 1, (acc + buf[i + 1]) % 65536)

\* Variant of compute_checksum: the sum starts at the header
compute_checksum_all(buf) == checksum_loop(buf, 0, 0)

\* R502::compute_checksum
compute_checksum(buf) == checksum_loop(buf, 6, 0)

\* Variant of add_overflows: the accumulator is taken to be eight bits wide
add_overflows_u8(acc, byte) == acc + byte > 255

\* checksum += (*byte) as u16, line 110: the addition leaves the range of u16
add_overflows(acc, byte) == acc + byte > 65535

\* Some addition of the loop of compute_checksum, started at offset i with
\* accumulator acc, leaves the range of u16
RECURSIVE checksum_overflows(_, _, _)
checksum_overflows(buf, i, acc) ==
  IF i >= Len(buf) THEN FALSE
  ELSE \/ add_overflows(acc, buf[i + 1])
       \/ checksum_overflows(buf, i + 1, (acc + buf[i + 1]) % 65536)

\* Whether the build checks integer overflow (a debug build panics on it,
\* a release build wraps)
OverflowChecks == BOOLEAN

\* prepare_cmd panics in compute_checksum: the build checks overflow and an
\* addition overflows
prepare_cmd_overflows(checks, w, address, cmd) ==
  /\ checks
  /\ checksum_overflows(to_payload(cmd, write_header(w, address)).buf, 6, 0)

\* R502::prepare_cmd: the transmit buffer (as a writer) after framing cmd
prepare_cmd(w, address, cmd) ==
  LET framed == to_payload(cmd, write_header(w, address))
      chk == compute_checksum(framed.buf)
  IN  write_cmd_bytes(framed, u16_to_be_bytes(chk))

\* ------------------------------------------------------------- decoders

\* What a decoder, parse_reply or send_command yields: a value (Ok), an
\* error value (Err, with the wrapped transport error as cause) or a panic.
NoReply == [tag |-> "none"]
Ok(reply) == [kind |-> "Ok", err |-> "none", cause |-> "none", reply |-> reply]
Err(e, cause) == [kind |-> "Err", err |-> e, cause |-> cause, reply |-> NoReply]
Panic == [kind |-> "Panic", err |-> "none", cause |-> "none", reply |-> NoReply]
NoResult == [kind |-> "None", err |-> "none", cause |-> "none", reply |-> NoReply]

\* Variant of PasswordVerificationState::from: 0x01 and 0x13 exchanged
PasswordVerificationState_from_swapped(byte) ==
  CASE byte = 0 -> "Correct"
    [] byte = 1 -> "Incorrect"
    [] byte = 19 -> "Error"
    [] OTHER -> "PANIC"

\* PasswordVerificationState::from ("PANIC" stands for the panic! arm)
PasswordVerificationState_from(byte) ==
  CASE byte = 0 -> "Correct"
    [] byte = 19 -> "Incorrect"
    [] byte = 1 -> "Error"
    [] OTHER -> "PANIC"

\* GenImgStatus::from
GenImgStatus_from(byte) ==
  CASE byte = 0 -> "Success"
    [] byte = 1 -> "PacketError"
    [] byte = 2 -> "FingerNotDetected"
    [] byte = 3 -> "ImageNotCaptured"
    [] OTHER -> "PANIC"

\* Img2TzStatus::from
Img2TzStatus_from(byte) ==
  CASE byte = 0 -> "Success"
    [] byte = 1 -> "PacketError"
    [] byte = 6 -> "FingerprintImageDistorted"
    [] byte = 7 -> "ProcessingFailed"
    [] byte = 21 -> "InvalidInput"
    [] OTHER -> "PANIC"

\* SearchStatus::from
SearchStatus_from(byte) ==
  CASE byte = 0 -> "Success"
    [] byte = 1 -> "PacketError"
    [] byte = 9 -> "NoMatch"
    [] OTHER -> "PANIC"

\* LoadCharStatus::from
LoadCharStatus_from(byte) ==
  CASE byte = 0 -> "Success"
    [] byte = 1 -> "PacketError"
    [] byte = 12 -> "LibraryReadError"
    [] byte = 11 -> "IndexOutOfRange"
    [] OTHER -> "PANIC"

\* Variant of MatchStatus::from: 0x09 is taken for NoMatch as well
MatchStatus_from_lenient(byte) ==
  CASE byte = 0 -> "Success"
    [] byte = 1 -> "PacketError"
    [] byte \in {8, 9} -> "NoMatch"
    [] OTHER -> "PANIC"

\* MatchStatus::from
MatchStatus_from(byte) ==
  CASE byte = 0 -> "Success"
    [] byte = 1 -> "PacketError"
    [] byte = 8 -> "NoMatch"
    [] OTHER -> "PANIC"

\* Variant of SystemParameters::from_payload: finger_library_size and
\* security_level read from each other's bytes
SystemParameters_from_payload_swapped(payload) ==
  [status_register |-> read_u16(Slice(payload, 0, 2)),
   system_identifier_code |-> read_u16(Slice(payload, 2, 4)),
   finger_library_size |-> read_u16(Slice(payload, 6, 8)),
   security_level |-> read_u16(Slice(payload, 4, 6)),
   device_address |-> read_u32(Slice(payload, 8, 12)),
   packet_size |-> read_u16(Slice(payload, 12, 14)),
   baud_setting |-> read_u16(Slice(payload, 12, 16))]

\* SystemParameters::from_payload on the 16-byte block (the caller's slice
\* payload[10..26] is always 16 bytes long, so no index here can panic).
\* baud_setting reads a u16 from the slice [12..16], that is bytes 12..14.
SystemParameters_from_payload(payload) ==
  [status_register |-> read_u16(Slice(payload, 0, 2)),
   system_identifier_code |-> read_u16(Slice(payload, 2, 4)),
   finger_library_size |-> read_u16(Slice(payload, 4, 6)),
   security_level |-> read_u16(Slice(payload, 6, 8)),
   device_address |-> read_u32(Slice(payload, 8, 12)),
   packet_size |-> read_u16(Slice(payload, 12, 14)),
   baud_setting |-> read_u16(Slice(payload, 12, 16))]

\* a & b on unsigned integers
RECURSIVE BitAnd(_, _)
BitAnd(a, b) ==
  IF a = 0 \/ b = 0 THEN 0
  ELSE (a % 2) * (b % 2) + 2 * BitAnd(a \div 2, b \div 2)

\* x << k on u16
Shl16(x, k) == (x * 2^k) % 65536

\* SystemParameters::busy
busy(self) == BitAnd(self.status_register, Shl16(1, 0)) # 0

\* SystemParameters::has_finger_match
has_finger_match(self) == BitAnd(self.status_register, Shl16(1, 1)) # 0

\* SystemParameters::password_ok
password_ok(self) == BitAnd(self.status_register, Shl16(1, 2)) # 0

\* Variant of SystemParameters::has_valid_image: the mask is 1 << 4
has_valid_image_bit4(self) == BitAnd(self.status_register, Shl16(1, 4)) # 0

\* SystemParameters::has_valid_image
has_valid_image(self) == BitAnd(self.status_register, Shl16(1, 3)) # 0

\* A decoded struct whose status is st, or the panic of the status decoder
StatusChecked(st, reply) == IF st = "PANIC" THEN Panic ELSE Ok(reply)

\* Variant of ReadSysParaResult::from_payload: a buffer too short for the
\* offsets read is answered with an error value
ReadSysParaResult_from_payload_checked(payload) ==
  IF ~InRange(payload, 26, 28) THEN Err("RecvPacketTooShort", "none")
  ELSE Ok([tag |-> "ReadSysPara",
           address |-> read_u32(Slice(payload, 2, 6)),
           confirmation_code |-> payload[10],
           checksum |-> read_u16(Slice(payload, 26, 28)),
           system_parameters |->
             SystemParameters_from_payload(Slice(payload, 10, 26))])

\* ReadSysParaResult::from_payload
ReadSysParaResult_from_payload(payload) ==
  IF ~InRange(payload, 26, 28) THEN Panic
  ELSE Ok([tag |-> "ReadSysPara",
           address |-> read_u32(Slice(payload, 2, 6)),
           confirmation_code |-> payload[10],
           checksum |-> read_u16(Slice(payload, 26, 28)),
           system_parameters |->
             SystemParameters_from_payload(Slice(payload, 10, 26))])

\* VfyPwdResult::from_payload
VfyPwdResult_from_payload(payload) ==
  IF ~InRange(payload, 10, 12) THEN Panic
  ELSE StatusChecked(PasswordVerificationState_from(payload[10]),
         [tag |-> "VfyPwd",
          address |-> read_u32(Slice(payload, 2, 6)),
          confirmation_code |-> PasswordVerificationState_from(payload[10]),
          checksum |-> read_u16(Slice(payload, 10, 12))])

\* Variant of GenImgResult::from_payload: the checksum is taken from the last
\* two bytes of the buffer
GenImgResult_from_payload_trailing(payload) ==
  IF ~InRange(payload, 10, 12) THEN Panic
  ELSE StatusChecked(GenImgStatus_from(payload[10]),
         [tag |-> "GenImg",
          address |-> read_u32(Slice(payload, 2, 6)),
          confirmation_code |-> GenImgStatus_from(payload[10]),
          checksum |-> read_u16(Slice(payload, Len(payload) - 2, Len(payload)))])

\* GenImgResult::from_payload
GenImgResult_from_payload(payload) ==
  IF ~InRange(payload, 10, 12) THEN Panic
  ELSE StatusChecked(GenImgStatus_from(payload[10]),
         [tag |-> "GenImg",
          address |-> read_u32(Slice(payload, 2, 6)),
          confirmation_code |-> GenImgStatus_from(payload[10]),
          checksum |-> read_u16(Slice(payload, 10, 12))])

\* Img2TzResult::from_payload
Img2TzResult_from_payload(payload) ==
  IF ~InRange(payload, 10, 12) THEN Panic
  ELSE StatusChecked(Img2TzStatus_from(payload[10]),
         [tag |-> "Img2Tz",
          address |-> read_u32(Slice(payload, 2, 6)),
          confirmation_code |-> Img2TzStatus_from(payload[10]),
          checksum |-> read_u16(Slice(payload, 10, 12))])

\* Variant of SearchResult::from_payload: match_id and match_score read from
\* each other's bytes
SearchResult_from_payload_swapped(payload) ==
  IF ~InRange(payload, 14, 16) THEN Panic
  ELSE StatusChecked(SearchStatus_from(payload[10]),
         [tag |-> "Search",
          address |-> read_u32(Slice(payload, 2, 6)),
          confirmation_code |-> SearchStatus_from(payload[10]),
          match_id |-> read_u16(Slice(payload, 12, 14)),
          match_score |-> read_u16(Slice(payload, 10, 12)),
          checksum |-> read_u16(Slice(payload, 14, 16))])

\* SearchResult::from_payload
SearchResult_from_payload(payload) ==
  IF ~InRange(payload, 14, 16) THEN Panic
  ELSE StatusChecked(SearchStatus_from(payload[10]),
         [tag |-> "Search",
          address |-> read_u32(Slice(payload, 2, 6)),
          confirmation_code |-> SearchStatus_from(payload[10]),
          match_id |-> read_u16(Slice(payload, 10, 12)),
          match_score |-> read_u16(Slice(payload, 12, 14)),
          checksum |-> read_u16(Slice(payload, 14, 16))])

\* LoadCharResult::from_payload
LoadCharResult_from_payload(payload) ==
  IF ~InRange(payload, 10, 12) THEN Panic
  ELSE StatusChecked(LoadCharStatus_from(payload[10]),
         [tag |-> "LoadChar",
          address |-> read_u32(Slice(payload, 2, 6)),
          confirmation_code |-> LoadCharStatus_from(payload[10]),
          checksum |-> read_u16(Slice(payload, 10, 12))])

\* MatchResult::from_payload
MatchResult_from_payload(payload) ==
  IF ~InRange(payload, 12, 14) THEN Panic
  ELSE StatusChecked(MatchStatus_from(payload[10]),
         [tag |-> "Match",
          address |-> read_u32(Slice(payload, 2, 6)),
          confirmation_code |-> MatchStatus_from(payload[10]),
          match_score |-> read_u16(Slice(payload, 10, 12)),
          checksum |-> read_u16(Slice(payload, 12, 14))])

\* The status enumerations of TemplateNum, RegModel, Store and DeletChar
\* (TemplateNumStatus, RegModelStatus, StoreStatus, DeletCharStatus): byte
\* 0x00 is Success; which other bytes are mapped is not given, so any other
\* byte either decodes to some further status or takes the panic arm.
StatusOnly_from(byte) ==
  IF byte = 0 THEN {"Success"} ELSE {"Other", "PANIC"}

\* TemplateNumResult::from_payload: the set of its possible outcomes
TemplateNumResult_from_payload(payload) ==
  IF ~InRange(payload, 12, 14) THEN {Panic}
  ELSE { StatusChecked(st,
           [tag |-> "TemplateNum",
            address |-> read_u32(Slice(payload, 2, 6)),
            confirmation_code |-> st,
            template_num |-> read_u16(Slice(payload, 10, 12)),
            checksum |-> read_u16(Slice(payload, 12, 14))])
         : st \in StatusOnly_from(payload[10]) }

\* RegModelResult, StoreResult, DeletCharResult ::from_payload (status-only
\* replies): the set of possible outcomes for the reply variant tag
StatusOnlyResult_from_payload(tag, payload) ==
  IF ~InRange(payload, 10, 12) THEN {Panic}
  ELSE { StatusChecked(st,
           [tag |-> tag,
            address |-> read_u32(Slice(payload, 2, 6)),
            confirmation_code |-> st,
            checksum |-> read_u16(Slice(payload, 10, 12))])
         : st \in StatusOnly_from(payload[10]) }

\* Variant of DecoderFor: the Store arm runs the decoder of RegModel
DecoderFor_swapped(cmd) == IF Tag(cmd) = "Store" THEN "RegModel" ELSE Tag(cmd)

\* The match of parse_reply on the in-flight command: the decoder it runs
DecoderFor(cmd) == Tag(cmd)

\* The decoder named d applied to the receive buffer: its possible outcomes
RunDecoder(d, payload) ==
  CASE d = "ReadSysPara" -> {ReadSysParaResult_from_payload(payload)}
    [] d = "VfyPwd" -> {VfyPwdResult_from_payload(payload)}
    [] d = "GenImg" -> {GenImgResult_from_payload(payload)}
    [] d = "Img2Tz" -> {Img2TzResult_from_payload(payload)}
    [] d = "Search" -> {SearchResult_from_payload(payload)}
    [] d = "LoadChar" -> {LoadCharResult_from_payload(payload)}
    [] d = "Match" -> {MatchResult_from_payload(payload)}
    [] d = "TemplateNum" -> TemplateNumResult_from_payload(payload)
    [] d = "RegModel" -> StatusOnlyResult_from_payload("RegModel", payload)
    [] d = "Store" -> StatusOnlyResult_from_payload("Store", payload)
    [] d = "DeletChar" -> StatusOnlyResult_from_payload("DeletChar", payload)

\* Variant of too_short: the threshold is one byte lower
too_short_6(received) == Len(received) < 6

\* parse_reply, line 138: too short to hold the packet-type byte
too_short(received) == Len(received) < 7

\* Variant of is_reply_packet: the header magic is looked at as well
is_reply_packet_magic(received) ==
  received[7] = 7 /\ received[1] = 239 /\ received[2] = 1

\* Variant of is_reply_packet: the trailing checksum is verified as well
is_reply_packet_verified(received) ==
  /\ received[7] = 7
  /\ compute_checksum(SubSeq(received, 1, Len(received) - 2))
       = read_u16(SubSeq(received, Len(received) - 1, Len(received)))

\* Variant of is_reply_packet: the packet type is not looked at
is_reply_packet_any(received) == TRUE

\* parse_reply, line 149: the packet-type byte says reply
is_reply_packet(received) == received[7] = 7

\* Variant of no_inflight: the in-flight slot is not looked at
no_inflight_skipped(inflight) == FALSE

\* parse_reply, line 144: no request is in flight
no_inflight(inflight) == ~inflight.some

\* R502::parse_reply: the possible outcomes, each with the decoder that was
\* run on the buffer ("none" when the function returned before the match).
\* Indexing received[6] panics on a buffer that has no offset 6.
parse_reply(received, inflight) ==
  IF too_short(received) THEN
    {[out |-> Err("RecvPacketTooShort", "none"), decoder |-> "none"]}
  ELSE IF no_inflight(inflight) THEN
    {[out |-> Err("RecvUnsolicitedReply", "none"), decoder |-> "none"]}
  ELSE IF ~InRange(received, 6, 7) THEN
    {[out |-> Panic, decoder |-> "none"]}
  ELSE IF ~is_reply_packet(received) THEN
    {[out |-> Err("RecvWrongReplyType", "none"), decoder |-> "none"]}
  ELSE IF ~inflight.some THEN
    \* the None arm of the match, line 185: panic!("Should not be reached")
    {[out |-> Panic, decoder |-> "none"]}
  ELSE
    {[out |-> o, decoder |-> DecoderFor(inflight.cmd)]
       : o \in RunDecoder(DecoderFor(inflight.cmd), received)}

\* ---------------------------------------------------------------- bounds

\* send_command calls per run
MaxCalls == 2

\* A call is started only while at most this many unread bytes of earlier
\* replies are still on the receive line
MaxBacklog == 0

\* ------------------------------------------------------------ input sets

DefaultAddress == U32(65535, 65535)

\* Addresses given to R502::new
Addresses == { DefaultAddress, U32(258, 772) }

\* Commands the caller sends
Commands ==
  { ReadSysPara, VfyPwd(U32(0, 0)), GenImg, Img2Tz(1),
    Search(1, 0, 255), LoadChar(2, 4660), Match, TemplateNum, RegModel,
    Store(1, 4), DeletChar(4, 1), VfyPwd(U32(4660, 22136)), Img2Tz(255) }

\* Error values of the transmit half (TX::Error) and receive half (RX::Error)
TxErrors == { "TxOverrun", "TxClosed" }
RxErrors == { "RxTimeout", "RxFraming" }

\* Packets the device may put on the receive line
StatusReply(status, chk) ==
  << 239, 1, 255, 255, 255, 255, 7, 0, 3, status, 0, chk >>

ReadSysParaReply ==
  << 239, 1, 255, 255, 255, 255, 7, 0, 19, 0, 0, 4, 0, 9, 0, 200, 0, 3,
     255, 255, 255, 255, 0, 2, 0, 6, 4, 246 >>

DevicePackets ==
  { StatusReply(0, 10),                 \* status 0x00, every status-only kind
    StatusReply(19, 29),                \* 0x13: mapped for VfyPwd only
    StatusReply(1, 99),                 \* status 0x01 with a wrong checksum
    << 239, 1, 255, 255, 255, 255, 7, 0, 5, 0, 0, 3, 0, 15 >>,
    << 239, 1, 255, 255, 255, 255, 7, 0, 7, 0, 0, 2, 0, 100, 0, 116 >>,
    ReadSysParaReply,
    << 239, 1, 255, 255, 255, 255, 2, 0, 3, 85, 0, 90 >>,  \* not a reply packet
    << 239, 1, 255, 255, 255, 255, 1, 0, 0 >>,           \* not a reply, no body
    << 239, 1, 255, 255, 255, 255, 7, 0, 0 >>,           \* reply with length 0
    << 239, 1, 255, 255, 255, 255, 7, 0, 5, 0, 0, 10 >>, \* shorter than declared
    << 170, 85, 1, 2, 3, 4, 7, 0, 3, 0, 0, 10 >> }       \* other magic, address

\* ----------------------------------------------------------------- state

VARIABLES
  address,           \* R502.address
  cmd_buffer,        \* R502.cmd_buffer
  received,          \* R502.received
  inflight_request,  \* R502.inflight_request
  pc,                \* where send_command stands: idle (not in a call), write,
                     \* flush, read_header, read_body, parse; aborted after a panic
  txi,               \* write loop: bytes of cmd_buffer handed to tx so far
  to_read,           \* read loops: iterations left in the current loop
  result,            \* what the last finished call returned
  rx_line,           \* bytes the receive half will yield, in order
  replied,           \* the device has answered the current call
  wire,              \* bytes the transmit half accepted in the current call
  flushed,           \* the flush of the current call succeeded
  nreads,            \* reads of the receive half completed in the current call
  fault,             \* the transport error raised in the current call, if any
  cur_cmd,           \* the argument of the current call
  parsed,            \* parse_reply was called in the current call
  decoder_run,       \* the decoder parse_reply ran in the current call
  calls,             \* send_command calls started
  hist,              \* what earlier calls were: another variant, a failure
  status_flags       \* what the caller read off the last reply's status register

vars ==
  << address, cmd_buffer, received, inflight_request, pc, txi, to_read,
     result, rx_line, replied, wire, flushed, nreads, fault, cur_cmd,
     parsed, decoder_run, calls, hist, status_flags >>

NoFault == [side |-> "none", err |-> "none"]
NoHist == [other_variant |-> FALSE, failed |-> FALSE, succeeded |-> FALSE]
NoFlags == [read |-> FALSE, busy |-> FALSE, has_finger_match |-> FALSE,
            password_ok |-> FALSE, has_valid_image |-> FALSE]

\* R502::new
InitDriver(addr) ==
  /\ address = addr
  /\ cmd_buffer = << >>
  /\ received = << >>
  /\ inflight_request = None
  /\ txi = 0
  /\ to_read = 0
  /\ result = NoResult
  /\ rx_line = << >>
  /\ replied = FALSE
  /\ wire = << >>
  /\ flushed = FALSE
  /\ nreads = 0
  /\ fault = NoFault
  /\ cur_cmd = ReadSysPara
  /\ parsed = FALSE
  /\ decoder_run = "none"
  /\ calls = 0
  /\ hist = NoHist
  /\ status_flags = NoFlags

Init ==
  /\ \E addr \in Addresses : InitDriver(addr)
  /\ pc = "idle"

\* Variant of Return: the result is set and the call stays where it is
Return_stay(r) ==
  /\ result' = r
  /\ pc' = pc

\* send_command returns r to the caller
Return(r) ==
  /\ result' = r
  /\ pc' = "idle"

\* a panic ends the process
Abort ==
  /\ result' = Panic
  /\ pc' = "aborted"

\* Variant of ArrayVec::clear: a buffer of 17 bytes or more is left as it is
clear_short(buf) == IF Len(buf) < 17 THEN << >> ELSE buf

\* Variant of ArrayVec::clear: only the first element goes
clear_first(buf) == IF buf = << >> THEN << >> ELSE Tail(buf)

\* Variant of ArrayVec::clear: the contents stay
clear_kept(buf) == buf

\* ArrayVec::clear, as send_command calls it on both buffers (lines 71-72)
clear(buf) == << >>

\* Variant of record_inflight: nothing is recorded
record_inflight_never(old, cmd) == old

\* Variant of record_inflight: a command already recorded is kept
record_inflight_first(old, cmd) == IF old.some THEN old ELSE Some(cmd)

\* prepare_cmd, line 97: the in-flight slot after recording cmd
record_inflight(old, cmd) == Some(cmd)

\* send_command, lines 71-75: clear both buffers, frame the command, record
\* it in flight, and enter the write loop
SendCommandWith(cmd, backlog) ==
  /\ pc = "idle"
  /\ calls < MaxCalls
  /\ Len(rx_line) <= backlog
  /\ \E checks \in OverflowChecks :
       LET start == [EmptyWriter EXCEPT !.buf = clear(cmd_buffer)]
           w == prepare_cmd(start, address, cmd)
       IN  IF prepare_cmd_overflows(checks, start, address, cmd)
             THEN /\ cmd_buffer' = to_payload(cmd, write_header(start, address)).buf
                  /\ inflight_request' = inflight_request
                  /\ Abort
           ELSE IF w.ok
             THEN /\ cmd_buffer' = w.buf
                  /\ inflight_request' = record_inflight(inflight_request, cmd)
                  /\ pc' = "write"
                  /\ result' = NoResult
             ELSE /\ cmd_buffer' = w.buf
                  /\ inflight_request' = inflight_request
                  /\ Abort
  /\ received' = clear(received)
  /\ txi' = 0
  /\ to_read' = 0
  /\ replied' = FALSE
  /\ wire' = << >>
  /\ flushed' = FALSE
  /\ nreads' = 0
  /\ fault' = NoFault
  /\ cur_cmd' = cmd
  /\ parsed' = FALSE
  /\ decoder_run' = "none"
  /\ calls' = calls + 1
  /\ hist' = [other_variant |->
                \/ hist.other_variant
                \/ (inflight_request.some /\ Tag(inflight_request.cmd) # Tag(cmd)),
              failed |-> hist.failed \/ result.kind = "Err",
              succeeded |-> hist.succeeded \/ result.kind = "Ok"]
  /\ UNCHANGED << status_flags, address, rx_line >>

\* Variant of TxWriteOk: after the last byte read_reply starts at once,
\* without the flush
TxWriteOk_noflush ==
  /\ pc = "write"
  /\ txi < Len(cmd_buffer)
  /\ wire' = Append(wire, cmd_buffer[txi + 1])
  /\ txi' = txi + 1
  /\ pc' = IF txi + 1 = Len(cmd_buffer) THEN "read_header" ELSE "write"
  /\ to_read' = IF txi + 1 = Len(cmd_buffer) THEN REPLY_HEADER_LENGTH ELSE to_read
  /\ UNCHANGED << status_flags, address, cmd_buffer, received, inflight_request,
                  result, rx_line, replied, flushed, nreads, fault, cur_cmd,
                  parsed, decoder_run, calls, hist >>

\* send_command(cmd), called when at most MaxBacklog unread bytes wait on
\* the receive line
SendCommand(cmd) == SendCommandWith(cmd, MaxBacklog)

\* tx.write(byte) returned Ok: the next byte of cmd_buffer is on the wire
TxWriteOk ==
  /\ pc = "write"
  /\ txi < Len(cmd_buffer)
  /\ wire' = Append(wire, cmd_buffer[txi + 1])
  /\ txi' = txi + 1
  /\ pc' = IF txi + 1 = Len(cmd_buffer) THEN "flush" ELSE "write"
  /\ UNCHANGED << status_flags, address, cmd_buffer, received, inflight_request, to_read,
                  result, rx_line, replied, flushed, nreads, fault, cur_cmd,
                  parsed, decoder_run, calls, hist >>

\* Variant of TxWriteErr: the error is dropped and the loop goes on
TxWriteErr_skip(e) ==
  /\ pc = "write"
  /\ txi < Len(cmd_buffer)
  /\ fault' = [side |-> "tx", err |-> e]
  /\ txi' = txi + 1
  /\ pc' = IF txi + 1 = Len(cmd_buffer) THEN "flush" ELSE "write"
  /\ UNCHANGED << status_flags, address, cmd_buffer, received, inflight_request, result,
                  to_read, rx_line, replied, wire, flushed, nreads, cur_cmd,
                  parsed, decoder_run, calls, hist >>

\* tx.write(byte) returned Err(e): return Err(Error::WriteError(e))
TxWriteErr(e) ==
  /\ pc = "write"
  /\ txi < Len(cmd_buffer)
  /\ fault' = [side |-> "tx", err |-> e]
  /\ Return(Err("WriteError", e))
  /\ UNCHANGED << status_flags, address, cmd_buffer, received, inflight_request, txi,
                  to_read, rx_line, replied, wire, flushed, nreads, cur_cmd,
                  parsed, decoder_run, calls, hist >>

\* tx.flush() returned Ok: read_reply starts its header loop
TxFlushOk ==
  /\ pc = "flush"
  /\ flushed' = TRUE
  /\ to_read' = REPLY_HEADER_LENGTH
  /\ pc' = "read_header"
  /\ UNCHANGED << status_flags, address, cmd_buffer, received, inflight_request, txi,
                  result, rx_line, replied, wire, nreads, fault, cur_cmd,
                  parsed, decoder_run, calls, hist >>

\* Variant of TxFlushErr: the flush is tried again
TxFlushErr_retry(e) ==
  /\ pc = "flush"
  /\ fault' = [side |-> "tx", err |-> e]
  /\ UNCHANGED << status_flags, address, cmd_buffer, received, inflight_request, txi,
                  to_read, rx_line, replied, wire, flushed, nreads, cur_cmd,
                  parsed, decoder_run, calls, hist, pc, result >>

\* tx.flush() returned Err(e): return Err(Error::WriteError(e))
TxFlushErr(e) ==
  /\ pc = "flush"
  /\ fault' = [side |-> "tx", err |-> e]
  /\ Return(Err("WriteError", e))
  /\ UNCHANGED << status_flags, address, cmd_buffer, received, inflight_request, txi,
                  to_read, rx_line, replied, wire, flushed, nreads, cur_cmd,
                  parsed, decoder_run, calls, hist >>

\* The device answers the command with packet pkt
DeviceReply(pkt) ==
  /\ pc \in {"read_header", "read_body"}
  /\ ~replied
  /\ replied' = TRUE
  /\ rx_line' = rx_line \o pkt
  /\ UNCHANGED << status_flags, address, cmd_buffer, received, inflight_request, pc, txi,
                  to_read, result, wire, flushed, nreads, fault, cur_cmd,
                  parsed, decoder_run, calls, hist >>

\* Variant of AfterPush: a header that is not a reply's ends read_reply
\* before its body is read
AfterPush_typefirst(at, left, buf) ==
  IF left > 0 THEN [pc |-> at, to_read |-> left]
  ELSE IF at = "read_header" /\ buf[7] = 7 /\ read_u16(Slice(buf, 7, 9)) > 0
    THEN [pc |-> "read_body", to_read |-> read_u16(Slice(buf, 7, 9))]
  ELSE [pc |-> "parse", to_read |-> 0]

\* Variant of AfterPush: read_reply returns after the first byte
AfterPush_one(at, left, buf) == [pc |-> "parse", to_read |-> 0]

\* Variant of AfterPush: the body length is taken one byte too early
AfterPush_early(at, left, buf) ==
  IF left > 0 THEN [pc |-> at, to_read |-> left]
  ELSE IF at = "read_header" /\ read_u16(Slice(buf, 6, 8)) > 0
    THEN [pc |-> "read_body", to_read |-> read_u16(Slice(buf, 6, 8))]
  ELSE [pc |-> "parse", to_read |-> 0]

\* Where read_reply (and then send_command, line 88) goes after a byte was
\* pushed: on in the same loop, from the header loop to the body loop with
\* the length just read, or out of read_reply into parse_reply
AfterPush(at, left, buf) ==
  IF left > 0 THEN [pc |-> at, to_read |-> left]
  ELSE IF at = "read_header" /\ read_u16(Slice(buf, 7, 9)) > 0
    THEN [pc |-> "read_body", to_read |-> read_u16(Slice(buf, 7, 9))]
  ELSE [pc |-> "parse", to_read |-> 0]

\* Variant of is_full: the buffer takes any number of bytes
is_full_never(buf) == FALSE

\* ArrayVec::push on the receive buffer panics when it is full (line 120)
is_full(buf) == Len(buf) >= RECEIVED_CAPACITY

\* Variant of RxReadOk: while the buffer is empty, a byte other than 0xEF is
\* dropped (the reader looks for the start of a packet)
RxReadOk_resync ==
  /\ pc \in {"read_header", "read_body"}
  /\ rx_line # << >>
  /\ rx_line' = Tail(rx_line)
  /\ nreads' = nreads + 1
  /\ IF received = << >> /\ Head(rx_line) # 239
       THEN UNCHANGED << received, to_read, pc, result >>
       ELSE LET buf == Append(received, Head(rx_line))
                nxt == AfterPush(pc, to_read - 1, buf)
            IN  /\ received' = buf
                /\ pc' = nxt.pc
                /\ to_read' = nxt.to_read
                /\ UNCHANGED result
  /\ UNCHANGED << status_flags, address, cmd_buffer, inflight_request, txi, replied, wire,
                  flushed, fault, cur_cmd, parsed, decoder_run, calls, hist >>

\* rx.read() returned Ok(word): push it to the receive buffer
RxReadOk ==
  /\ pc \in {"read_header", "read_body"}
  /\ rx_line # << >>
  /\ rx_line' = Tail(rx_line)
  /\ nreads' = nreads + 1
  /\ IF is_full(received)
       THEN /\ Abort
            /\ UNCHANGED << received, to_read >>
       ELSE LET buf == Append(received, Head(rx_line))
                nxt == AfterPush(pc, to_read - 1, buf)
            IN  /\ received' = buf
                /\ pc' = nxt.pc
                /\ to_read' = nxt.to_read
                /\ UNCHANGED result
  /\ UNCHANGED << status_flags, address, cmd_buffer, inflight_request, txi, replied, wire,
                  flushed, fault, cur_cmd, parsed, decoder_run, calls, hist >>

\* Variant of RxReadErr: the partial buffer is handed to parse_reply
RxReadErr_parse(e) ==
  /\ pc \in {"read_header", "read_body"}
  /\ nreads' = nreads + 1
  /\ fault' = [side |-> "rx", err |-> e]
  /\ pc' = "parse"
  /\ UNCHANGED << status_flags, address, cmd_buffer, received, inflight_request, txi,
                  to_read, result, rx_line, replied, wire, flushed, cur_cmd,
                  parsed, decoder_run, calls, hist >>

\* rx.read() returned Err(e): return Err(Error::RecvReadError(e))
RxReadErr(e) ==
  /\ pc \in {"read_header", "read_body"}
  /\ nreads' = nreads + 1
  /\ fault' = [side |-> "rx", err |-> e]
  /\ Return(Err("RecvReadError", e))
  /\ UNCHANGED << status_flags, address, cmd_buffer, received, inflight_request, txi,
                  to_read, rx_line, replied, wire, flushed, cur_cmd,
                  parsed, decoder_run, calls, hist >>

\* Variant of ParseReply: the in-flight command is taken out of its slot
ParseReply_take ==
  /\ pc = "parse"
  /\ \E p \in parse_reply(received, inflight_request) :
       /\ parsed' = TRUE
       /\ decoder_run' = p.decoder
       /\ IF p.out.kind = "Panic" THEN Abort ELSE Return(p.out)
  /\ inflight_request' = None
  /\ UNCHANGED << status_flags, address, cmd_buffer, received, txi,
                  to_read, rx_line, replied, wire, flushed, nreads, fault,
                  cur_cmd, calls, hist >>

\* read_reply returned Ok: parse_reply decodes the receive buffer
ParseReply ==
  /\ pc = "parse"
  /\ \E p \in parse_reply(received, inflight_request) :
       /\ parsed' = TRUE
       /\ decoder_run' = p.decoder
       /\ IF p.out.kind = "Panic" THEN Abort ELSE Return(p.out)
  /\ UNCHANGED << status_flags, address, cmd_buffer, received, inflight_request, txi,
                  to_read, rx_line, replied, wire, flushed, nreads, fault,
                  cur_cmd, calls, hist >>

Next ==
  \/ \E cmd \in Commands : SendCommand(cmd)
  \/ TxWriteOk
  \/ \E e \in TxErrors : TxWriteErr(e)
  \/ TxFlushOk
  \/ \E e \in TxErrors : TxFlushErr(e)
  \/ \E pkt \in DevicePackets : DeviceReply(pkt)
  \/ RxReadOk
  \/ \E e \in RxErrors : RxReadErr(e)
  \/ ParseReply

Spec == Init /\ [][Next]_vars

\* ------------------------------- calls on a line that holds earlier input

\* Unread bytes allowed on the receive line when a call of SpecStream starts
MaxStreamBacklog == 13

StreamCommands == { ReadSysPara, GenImg }

\* What the device puts on the line in answer to a call: a reply, or a
\* packet that is not a reply with a reply right behind it
StreamPackets ==
  { StatusReply(0, 10),
    ReadSysParaReply,
    << 239, 1, 255, 255, 255, 255, 2, 0, 3, 85, 0, 90 >> \o StatusReply(0, 10) }

NextStream ==
  \/ \E cmd \in StreamCommands : SendCommandWith(cmd, MaxStreamBacklog)
  \/ TxWriteOk
  \/ \E e \in TxErrors : TxWriteErr(e)
  \/ TxFlushOk
  \/ \E e \in TxErrors : TxFlushErr(e)
  \/ \E pkt \in StreamPackets : DeviceReply(pkt)
  \/ RxReadOk
  \/ \E e \in RxErrors : RxReadErr(e)
  \/ ParseReply

\* send_command called again while bytes of earlier packets are unread
SpecStream == Init /\ [][NextStream]_vars

\* --------------------------- calls on a transport that always completes

\* Commands and device packets of the calls followed to their end
LiveCommands == { ReadSysPara, GenImg, Search(1, 0, 255) }

LivePackets ==
  { StatusReply(0, 10), StatusReply(19, 29), ReadSysParaReply,
    << 239, 1, 255, 255, 255, 255, 7, 0, 5, 0, 0, 10 >> }

\* block!(tx.write(..)), block!(tx.flush()), block!(rx.read()) each leave
\* their loop when the transport answers Ok or an error other than WouldBlock
TxWriteCompletes == TxWriteOk \/ \E e \in TxErrors : TxWriteErr(e)
TxFlushCompletes == TxFlushOk \/ \E e \in TxErrors : TxFlushErr(e)
RxReadCompletes == RxReadOk \/ \E e \in RxErrors : RxReadErr(e)

NextLive ==
  \/ \E cmd \in LiveCommands : SendCommand(cmd)
  \/ TxWriteOk
  \/ \E e \in TxErrors : TxWriteErr(e)
  \/ TxFlushOk
  \/ \E e \in TxErrors : TxFlushErr(e)
  \/ \E pkt \in LivePackets : DeviceReply(pkt)
  \/ RxReadOk
  \/ \E e \in RxErrors : RxReadErr(e)
  \/ ParseReply

\* Every transport operation the call waits on eventually completes, and
\* parse_reply, which waits on nothing, runs to its end
TransportCompletes ==
  /\ WF_vars(TxWriteCompletes)
  /\ WF_vars(TxFlushCompletes)
  /\ WF_vars(RxReadCompletes)
  /\ WF_vars(ParseReply)

SpecLive == Init /\ [][NextLive]_vars /\ TransportCompletes

\* --------------------------------------------- the encoder on its own

\* Parameter values for the encoder: edge and mixed-byte values of each width
EncBytes == { 0, 1, 2, 255 }
EncWords == { 0, 1, 4, 255, 256, 4660, 65535 }
EncDwords == { U32(h, l) : h \in { 0, 4660, 65535 }, l \in { 0, 22136, 65535 } }

EncAddresses == Addresses \cup { U32(0, 0), U32(32768, 255) }

EncCommands ==
  { ReadSysPara, GenImg, Match, TemplateNum, RegModel }
    \cup { VfyPwd(pw) : pw \in EncDwords }
    \cup { Img2Tz(b) : b \in EncBytes }
    \cup { Search(b, s, e) : b \in EncBytes, s \in EncWords, e \in EncWords }
    \cup { LoadChar(b, i) : b \in EncBytes, i \in EncWords }
    \cup { Store(b, i) : b \in EncBytes, i \in EncWords }
    \cup { DeletChar(s, n) : s \in EncWords, n \in EncWords }

InitEncode ==
  /\ \E addr \in EncAddresses : InitDriver(addr)
  /\ pc = "idle"

NextEncode == \E cmd \in EncCommands : SendCommand(cmd)

\* prepare_cmd applied to every command of EncCommands at every address of
\* EncAddresses (the start of a send_command call, as the serialisation
\* tests of driver.rs apply it)
SpecEncode == InitEncode /\ [][NextEncode]_vars

\* ------------------------------------ every value of the buffer field

\* The commands with a buffer field, at every value of it
BufferCommands ==
  { Img2Tz(b) : b \in 0..255 }
    \cup { Search(b, 0, 255) : b \in 0..255 }
    \cup { LoadChar(b, 4660) : b \in 0..255 }
    \cup { Store(b, 4) : b \in 0..255 }

NextBuffer ==
  \/ \E cmd \in BufferCommands : SendCommand(cmd)
  \/ TxWriteOk

\* prepare_cmd and the write loop of send_command for those commands
SpecBuffer == Init /\ [][NextBuffer]_vars

\* --------------------------------------------- the decoder on its own

\* Further replies given to the decoder only, whose bytes after the length
\* field all differ: a ReadSysPara reply and a Search reply
DecodeOnlyPackets ==
  { << 239, 1, 1, 2, 3, 4, 7, 0, 19, 0,
       17, 18, 19, 20, 21, 22, 23, 24, 25, 26, 27, 28, 29, 30, 31, 32,
       33, 34 >>,
    << 239, 1, 255, 255, 255, 255, 7, 0, 7, 0, 65, 66, 67, 68, 69, 70 >> }

\* Receive buffers for the decoder: every prefix of every reply packet
DecodeBuffers ==
  UNION { { SubSeq(pkt, 1, n) : n \in 0..Len(pkt) }
          : pkt \in DevicePackets \cup DecodeOnlyPackets }

\* parse_reply called on a driver whose receive buffer and in-flight slot
\* were set directly (as the deserialisation tests of driver.rs do)
InitDecode ==
  \E addr \in Addresses, buf \in DecodeBuffers,
     inflight \in {None} \cup { Some(c) : c \in Commands } :
    /\ address = addr
    /\ cmd_buffer = << >>
    /\ received = buf
    /\ inflight_request = inflight
    /\ pc = "parse"
    /\ txi = 0
    /\ to_read = 0
    /\ result = NoResult
    /\ rx_line = << >>
    /\ replied = FALSE
    /\ wire = << >>
    /\ flushed = FALSE
    /\ nreads = 0
    /\ fault = NoFault
    /\ cur_cmd = IF inflight.some THEN inflight.cmd ELSE ReadSysPara
    /\ parsed = FALSE
    /\ decoder_run = "none"
    /\ calls = 0
    /\ hist = NoHist
    /\ status_flags = NoFlags

NextDecode == ParseReply

SpecDecode == InitDecode /\ [][NextDecode]_vars

\* ------------------------------------------------- replies near 1024 bytes

\* Lengths declared by the long replies: 9 + length is 1023 .. 1026
LongLengths == { 1014, 1015, 1016, 1017 }

\* A reply whose header declares length len, followed by len zero bytes
LongReply(len) ==
  << 239, 1, 255, 255, 255, 255, 7, len \div 256, len % 256 >>
    \o [i \in 1..len |-> 0]

\* A GenImg call that has written and flushed its packet and starts
\* read_reply, the device answering with a long reply
InitLong ==
  \E addr \in Addresses, len \in LongLengths :
    /\ address = addr
    /\ cmd_buffer = prepare_cmd(EmptyWriter, addr, GenImg).buf
    /\ received = << >>
    /\ inflight_request = Some(GenImg)
    /\ pc = "read_header"
    /\ txi = Len(cmd_buffer)
    /\ to_read = REPLY_HEADER_LENGTH
    /\ result = NoResult
    /\ rx_line = LongReply(len)
    /\ replied = TRUE
    /\ wire = cmd_buffer
    /\ flushed = TRUE
    /\ nreads = 0
    /\ fault = NoFault
    /\ cur_cmd = GenImg
    /\ parsed = FALSE
    /\ decoder_run = "none"
    /\ calls = 1
    /\ hist = NoHist
    /\ status_flags = NoFlags

NextLong ==
  \/ RxReadOk
  \/ \E e \in RxErrors : RxReadErr(e)
  \/ ParseReply

SpecLong == InitLong /\ [][NextLong]_vars

\* ------------------------------------------ every status byte, decoded

\* The commands whose replies carry a status enumeration of responses.rs
StatusCommands ==
  { GenImg, Img2Tz(1), Search(1, 0, 255), LoadChar(2, 4660), Match }

\* The reply to cmd with status byte b: no further fields, a match score
\* (Match), or a match id and score (Search), then the checksum
StatusCodeReply(cmd, b) ==
  CASE cmd.tag = "Search" ->
         << 239, 1, 255, 255, 255, 255, 7, 0, 7, b, 0, 2, 0, 100,
            (116 + b) \div 256, (116 + b) % 256 >>
    [] cmd.tag = "Match" ->
         << 239, 1, 255, 255, 255, 255, 7, 0, 5, b, 0, 100,
            (112 + b) \div 256, (112 + b) % 256 >>
    [] OTHER -> StatusReply(b, 10 + b)

\* parse_reply on a reply with any status byte 0..255, for each of them
InitStatusCodes ==
  \E addr \in Addresses, cmd \in StatusCommands, b \in 0..255 :
    /\ address = addr
    /\ cmd_buffer = << >>
    /\ received = StatusCodeReply(cmd, b)
    /\ inflight_request = Some(cmd)
    /\ pc = "parse"
    /\ txi = 0
    /\ to_read = 0
    /\ result = NoResult
    /\ rx_line = << >>
    /\ replied = FALSE
    /\ wire = << >>
    /\ flushed = FALSE
    /\ nreads = 0
    /\ fault = NoFault
    /\ cur_cmd = cmd
    /\ parsed = FALSE
    /\ decoder_run = "none"
    /\ calls = 0
    /\ hist = NoHist
    /\ status_flags = NoFlags

NextStatusCodes == ParseReply

SpecStatusCodes == InitStatusCodes /\ [][NextStatusCodes]_vars

\* ------------------------------------- the status register accessors

\* High bytes of the status register in the replies below
StatusHighBytes == { 0, 1, 128, 255 }

\* A ReadSysPara reply whose status register is the bytes hi, lo (the other
\* fields as in ReadSysParaReply, the checksum following)
StatusRegisterReply(hi, lo) ==
  << 239, 1, 255, 255, 255, 255, 7, 0, 19, 0,
     hi, lo, 0, 9, 0, 200, 0, 3, 255, 255, 255, 255, 0, 2, 0, 6,
     (1266 + hi + lo) \div 256, (1266 + hi + lo) % 256 >>

\* The caller has a ReadSysPara reply and calls the four accessors on its
\* system_parameters
ReadStatusRegister ==
  /\ pc = "idle"
  /\ result.kind = "Ok"
  /\ result.reply.tag = "ReadSysPara"
  /\ ~status_flags.read
  /\ LET sp == result.reply.system_parameters IN
       status_flags' = [read |-> TRUE,
                        busy |-> busy(sp),
                        has_finger_match |-> has_finger_match(sp),
                        password_ok |-> password_ok(sp),
                        has_valid_image |-> has_valid_image(sp)]
  /\ UNCHANGED << address, cmd_buffer, received, inflight_request, pc, txi,
                  to_read, result, rx_line, replied, wire, flushed, nreads,
                  fault, cur_cmd, parsed, decoder_run, calls, hist >>

\* parse_reply on a ReadSysPara reply with every low byte and some high
\* bytes of the status register, then the accessors on what it decoded
InitStatus ==
  \E addr \in Addresses, hi \in StatusHighBytes, lo \in 0..255 :
    /\ address = addr
    /\ cmd_buffer = << >>
    /\ received = StatusRegisterReply(hi, lo)
    /\ inflight_request = Some(ReadSysPara)
    /\ pc = "parse"
    /\ txi = 0
    /\ to_read = 0
    /\ result = NoResult
    /\ rx_line = << >>
    /\ replied = FALSE
    /\ wire = << >>
    /\ flushed = FALSE
    /\ nreads = 0
    /\ fault = NoFault
    /\ cur_cmd = ReadSysPara
    /\ parsed = FALSE
    /\ decoder_run = "none"
    /\ calls = 0
    /\ hist = NoHist
    /\ status_flags = NoFlags

NextStatus == ParseReply \/ ReadStatusRegister

SpecStatus == InitStatus /\ [][NextStatus]_vars

\* ---------------------------------------------------------------- claims

InCall == pc \in {"write", "flush", "read_header", "read_body", "parse"}

\* C1: whenever send_command(C) has returned Ok, the Reply carries the
\* variant tag of C, for every command variant; no command yields a Reply
\* of another variant.
C1_ReplyVariantIsCommandVariant ==
  (pc = "idle" /\ result.kind = "Ok") =>
    /\ result.reply.tag \in CommandTags
    /\ result.reply.tag = Tag(cur_cmd)

\* a Store call that follows a call of another variant returned Reply::Store
C1_Witness ==
  /\ pc = "idle"
  /\ result.kind = "Ok"
  /\ Tag(cur_cmd) = "Store"
  /\ result.reply.tag = "Store"
  /\ hist.other_variant

\* C2: throughout a call, from the start of transmission to the decode, the
\* in-flight command is the command of that call, and the decoder run on
\* the reply is that command's, whatever earlier calls sent and however
\* they ended.
C2_InflightIsCommandOfCall ==
  /\ InCall => inflight_request = Some(cur_cmd)
  /\ parsed =>
       /\ inflight_request = Some(cur_cmd)
       /\ decoder_run # "none" => decoder_run = Tag(cur_cmd)

\* the second call, after a failed call of another variant, ran its decoder
C2_Witness ==
  /\ calls = 2
  /\ hist.other_variant
  /\ hist.failed
  /\ parsed
  /\ decoder_run = Tag(cur_cmd)

RECURSIVE SumSeq(_)
SumSeq(s) == IF s = << >> THEN 0 ELSE Head(s) + SumSeq(Tail(s))

\* C3: the last two bytes of the packet prepare_cmd builds are the
\* big-endian 16-bit sum, modulo 2^16, of the bytes from offset 6 through
\* the last parameter byte; offsets 0..6 are not summed.
C3_ChecksumIsSumFromPacketType ==
  pc = "write" =>
    LET n == Len(cmd_buffer)
        sum == SumSeq(SubSeq(cmd_buffer, 7, n - 2)) % 65536
    IN  /\ n >= 12
        /\ cmd_buffer[n - 1] = sum \div 256
        /\ cmd_buffer[n] = sum % 256

\* a Search packet whose checksum needs its high byte
C3_Witness ==
  /\ pc = "write"
  /\ cur_cmd = Search(255, 65535, 65535)
  /\ cmd_buffer[Len(cmd_buffer) - 1] = 5
  /\ cmd_buffer[Len(cmd_buffer)] = 8

\* the size of a command's parameters on the wire, from its field types
ParamSize(cmd) ==
  CASE cmd.tag = "VfyPwd" -> 4
    [] cmd.tag = "Img2Tz" -> 1
    [] cmd.tag = "Search" -> 1 + 2 + 2
    [] cmd.tag = "LoadChar" -> 1 + 2
    [] cmd.tag = "Store" -> 1 + 2
    [] cmd.tag = "DeletChar" -> 2 + 2
    [] OTHER -> 0

PacketLen(tag) ==
  CASE tag = "Img2Tz" -> 13
    [] tag \in {"LoadChar", "Store"} -> 15
    [] tag \in {"VfyPwd", "DeletChar"} -> 16
    [] tag = "Search" -> 17
    [] OTHER -> 12

\* C4: the big-endian length field at offsets 7..9 of the outbound packet is
\* 1 + the size of the parameters + 2, and the packet is 9 + length bytes
\* long: 12 without parameters, 13 Img2Tz, 15 LoadChar and Store, 16 VfyPwd
\* and DeletChar, 17 Search.
C4_LengthFieldAndPacketLength ==
  pc = "write" =>
    LET length == cmd_buffer[8] * 256 + cmd_buffer[9] IN
      /\ length = 1 + ParamSize(cur_cmd) + 2
      /\ Len(cmd_buffer) = 9 + length
      /\ Len(cmd_buffer) = PacketLen(Tag(cur_cmd))

\* a Store packet: length field 6, 15 bytes
C4_Witness ==
  /\ pc = "write"
  /\ cur_cmd = Store(1, 4)
  /\ address = DefaultAddress
  /\ cmd_buffer = << 239, 1, 255, 255, 255, 255, 1, 0, 6, 6, 1, 0, 4, 0, 18 >>

Opcode(tag) ==
  CASE tag = "ReadSysPara" -> 15
    [] tag = "VfyPwd" -> 19
    [] tag = "GenImg" -> 1
    [] tag = "Img2Tz" -> 2
    [] tag = "Match" -> 3
    [] tag = "Search" -> 4
    [] tag = "RegModel" -> 5
    [] tag = "Store" -> 6
    [] tag = "LoadChar" -> 7
    [] tag = "DeletChar" -> 12
    [] tag = "TemplateNum" -> 29

\* the big-endian word at 0-based offsets a, a+1 of buf
WordAt(buf, a) == buf[a + 1] * 256 + buf[a + 2]

\* the parameter bytes of the packet buf (offset 10 up to the checksum) are
\* the fields of cmd in declared order, multi-byte fields big-endian
ParamsAre(buf, cmd) ==
  CASE cmd.tag = "VfyPwd" ->
         WordAt(buf, 10) = cmd.password.hi /\ WordAt(buf, 12) = cmd.password.lo
    [] cmd.tag = "Img2Tz" -> buf[11] = cmd.buffer
    [] cmd.tag = "Search" ->
         /\ buf[11] = cmd.buffer
         /\ WordAt(buf, 11) = cmd.start_index
         /\ WordAt(buf, 13) = cmd.end_index
    [] cmd.tag \in {"LoadChar", "Store"} ->
         buf[11] = cmd.buffer /\ WordAt(buf, 11) = cmd.index
    [] cmd.tag = "DeletChar" ->
         WordAt(buf, 10) = cmd.start_index /\ WordAt(buf, 12) = cmd.num_to_delete
    [] OTHER -> TRUE

\* C5: each command is encoded with its own opcode at offset 9, the opcodes
\* are pairwise distinct, and the parameters follow in declared order with
\* every multi-byte field big-endian, for all parameter values.
C5_OpcodeAndParameters ==
  /\ \A t1, t2 \in CommandTags : t1 # t2 => opcode_of(t1) # opcode_of(t2)
  /\ pc = "write" =>
       /\ cmd_buffer[10] = Opcode(Tag(cur_cmd))
       /\ \A i \in 1..Len(cmd_buffer) : cmd_buffer[i] \in 0..255
       /\ ParamsAre(cmd_buffer, cur_cmd)

\* a Search packet whose two indexes have different high and low bytes
C5_Witness ==
  /\ pc = "write"
  /\ cur_cmd = Search(2, 4660, 256)
  /\ SubSeq(cmd_buffer, 10, 15) = << 4, 2, 18, 52, 1, 0 >>

\* C6: the bytes transmitted in every call start with 0xEF 0x01, then the
\* address given to R502::new as four big-endian bytes, then the packet type
\* 0x01; send_command never changes the address.
C6_HeaderAndAddress ==
  /\ [](\A i \in 1..Len(wire) :
          /\ wire[i] = cmd_buffer[i]
          /\ i = 1 => wire[i] = 239
          /\ i = 2 => wire[i] = 1
          /\ i = 4 => wire[3] * 256 + wire[4] = address.hi
          /\ i = 6 => wire[5] * 256 + wire[6] = address.lo
          /\ i = 7 => wire[i] = 1)
  /\ [][address' = address]_vars

\* the second call of a driver with a non-default address has sent its header
C6_Witness ==
  /\ calls = 2
  /\ address = U32(258, 772)
  /\ Len(wire) >= 7
  /\ SubSeq(wire, 1, 7) = << 239, 1, 1, 2, 3, 4, 1 >>

\* C7: when a transport write of a command byte or the flush fails, the call
\* returns WriteError wrapping that error, no further byte is written and
\* nothing is read from the receive side in that call.
C7_WriteErrorEndsCall ==
  fault.side = "tx" =>
    /\ pc = "idle"
    /\ result = Err("WriteError", fault.err)
    /\ Len(wire) = txi
    /\ wire = SubSeq(cmd_buffer, 1, txi)
    /\ ~flushed
    /\ nreads = 0
    /\ received = << >>
    /\ ~parsed

\* a write failed after five bytes of the packet were out
C7_Witness ==
  /\ fault = [side |-> "tx", err |-> "TxClosed"]
  /\ Len(wire) = 5
  /\ result = Err("WriteError", "TxClosed")

\* C8: when a transport read fails, within the 9 header bytes or within the
\* body, the call returns RecvReadError wrapping that error, reads no more
\* and does not decode the partial buffer.
C8_ReadErrorEndsCall ==
  fault.side = "rx" =>
    /\ pc = "idle"
    /\ result = Err("RecvReadError", fault.err)
    /\ nreads = Len(received) + 1
    /\ ~parsed
    /\ decoder_run = "none"

\* a read failed in the body, after the header and one body byte
C8_Witness ==
  /\ fault = [side |-> "rx", err |-> "RxFraming"]
  /\ Len(received) = 10
  /\ result = Err("RecvReadError", "RxFraming")

\* C9: with a command in flight and at least 7 bytes received, a packet-type
\* byte other than 0x07 makes the decode fail with WrongReplyType for every
\* command variant, and no decoder is run on the packet, so that nothing in
\* it can cause a panic.
C9_WrongReplyType ==
  (parsed /\ inflight_request.some /\ Len(received) >= 7 /\ received[7] # 7) =>
    /\ pc = "idle"
    /\ result = Err("RecvWrongReplyType", "none")
    /\ decoder_run = "none"

\* a packet of type 0x02 whose byte 9 no status decoder maps, GenImg in flight
C9_Witness ==
  /\ parsed
  /\ inflight_request = Some(GenImg)
  /\ received = << 239, 1, 255, 255, 255, 255, 2, 0, 3, 85, 0, 90 >>
  /\ result.err = "RecvWrongReplyType"

\* C10: decoding a receive buffer of fewer than 7 bytes fails with
\* PacketTooShort, with or without a command in flight and whatever the
\* bytes are: the check comes first.
C10_PacketTooShort ==
  (parsed /\ Len(received) < 7) =>
    /\ pc = "idle"
    /\ result = Err("RecvPacketTooShort", "none")
    /\ decoder_run = "none"

\* six bytes and no command in flight: PacketTooShort, not UnsolicitedReply
C10_Witness ==
  /\ parsed
  /\ Len(received) = 6
  /\ ~inflight_request.some
  /\ result.err = "RecvPacketTooShort"

\* C11: decoding a receive buffer of at least 7 bytes while no command is
\* in flight fails with UnsolicitedReply, a returned error and never a
\* panic, and the test comes before the packet-type byte is looked at.
C11_UnsolicitedReply ==
  (parsed /\ ~inflight_request.some /\ Len(received) >= 7) =>
    /\ pc = "idle"
    /\ result = Err("RecvUnsolicitedReply", "none")
    /\ decoder_run = "none"

\* no command in flight and a packet whose type byte is 0x02
C11_Witness ==
  /\ parsed
  /\ ~inflight_request.some
  /\ received = << 239, 1, 255, 255, 255, 255, 2, 0, 3, 85, 0, 90 >>
  /\ result.err = "RecvUnsolicitedReply"

\* the call got some bytes of a reply but not all the header declares
PartialReply ==
  /\ flushed
  /\ Len(received) > 0
  /\ \/ Len(received) < REPLY_HEADER_LENGTH
     \/ Len(received) < REPLY_HEADER_LENGTH + WordAt(received, 7)

\* C12: send_command returns Error::RecvPacketTooShort if the reply was
\* only partially received.
C12_PartialReplyIsPacketTooShort ==
  (pc = "idle" /\ calls > 0 /\ PartialReply) =>
    result = Err("RecvPacketTooShort", "none")

\* the status bytes each reply kind maps (the kinds with a status enumeration
\* in responses.rs)
MappedStatus(tag) ==
  CASE tag = "VfyPwd" -> { 0, 1, 19 }
    [] tag = "GenImg" -> { 0, 1, 2, 3 }
    [] tag = "Img2Tz" -> { 0, 1, 6, 7, 21 }
    [] tag = "Search" -> { 0, 1, 9 }
    [] tag = "LoadChar" -> { 0, 1, 11, 12 }
    [] tag = "Match" -> { 0, 1, 8 }

StatusKinds == { "VfyPwd", "GenImg", "Img2Tz", "Search", "LoadChar", "Match" }

\* a reply packet as long as it declares was decoded for a command in flight
DecodedReply ==
  /\ parsed
  /\ inflight_request.some
  /\ Len(received) >= REPLY_HEADER_LENGTH + 3
  /\ Len(received) = REPLY_HEADER_LENGTH + WordAt(received, 7)
  /\ received[7] = 7

\* C13: decoding a reply whose status byte (offset 9) is outside the mapped
\* set of its reply kind fails with an UnknownStatusCode error returned to
\* the caller; the process is not aborted.
C13_UnmappedStatusIsAnError ==
  (/\ DecodedReply
   /\ Tag(inflight_request.cmd) \in StatusKinds
   /\ received[10] \notin MappedStatus(Tag(inflight_request.cmd))) =>
    /\ pc = "idle"
    /\ result.kind = "Err"
    /\ result.err = "UnknownStatusCode"

\* the two 16-bit halves of the big-endian u32 at 0-based offsets a..a+4
DwordAt(buf, a) == U32(WordAt(buf, a), WordAt(buf, a + 2))

\* C14: for a VfyPwd reply, status byte 0x00 decodes to Correct, 0x01 to
\* Error and 0x13 to Incorrect, and the reply's address is the big-endian
\* word at offsets 2..6 of the received packet.
C14_VfyPwdReply ==
  (/\ DecodedReply
   /\ Tag(inflight_request.cmd) = "VfyPwd"
   /\ received[10] \in { 0, 1, 19 }) =>
    /\ pc = "idle"
    /\ result.kind = "Ok"
    /\ result.reply.tag = "VfyPwd"
    /\ result.reply.confirmation_code =
         (CASE received[10] = 0 -> "Correct"
            [] received[10] = 1 -> "Error"
            [] received[10] = 19 -> "Incorrect")
    /\ result.reply.address = DwordAt(received, 2)

\* a VfyPwd reply with status 0x13 decoded to Incorrect
C14_Witness ==
  /\ parsed
  /\ inflight_request.some
  /\ Tag(inflight_request.cmd) = "VfyPwd"
  /\ received = << 239, 1, 255, 255, 255, 255, 7, 0, 3, 19, 0, 29 >>
  /\ result.kind = "Ok"
  /\ result.reply.confirmation_code = "Incorrect"
  /\ result.reply.address = U32(65535, 65535)

\* C15: a receive that succeeds reads exactly 9 header bytes and then
\* exactly `length` body bytes (the big-endian word at offsets 7..9 of the
\* header just read), in that order, and nothing more: while the header is
\* read fewer than 9 bytes are held, the body is read only behind a complete
\* header, and when the buffer is decoded it holds 9 + length bytes, one per
\* read.
C15_ReadsHeaderThenBody ==
  /\ pc = "read_header" =>
       /\ Len(received) < REPLY_HEADER_LENGTH
       /\ to_read = REPLY_HEADER_LENGTH - Len(received)
       /\ nreads = Len(received)
  /\ pc = "read_body" =>
       /\ Len(received) >= REPLY_HEADER_LENGTH
       /\ to_read > 0
       /\ Len(received) + to_read = REPLY_HEADER_LENGTH + WordAt(received, 7)
       /\ nreads = Len(received)
  /\ (pc = "parse" \/ parsed) =>
       /\ Len(received) >= REPLY_HEADER_LENGTH
       /\ Len(received) = REPLY_HEADER_LENGTH + WordAt(received, 7)
       /\ nreads = Len(received)

\* the 28-byte ReadSysPara reply was read whole, in 28 reads, and is about
\* to be decoded
C15_Witness ==
  /\ pc = "parse"
  /\ received = ReadSysParaReply
  /\ WordAt(received, 7) = 19
  /\ nreads = 28

\* a reply packet of at least n bytes was decoded with a command of this
\* variant in flight
DecodedAs(tag, n) ==
  /\ parsed
  /\ inflight_request.some
  /\ Tag(inflight_request.cmd) = tag
  /\ Len(received) >= n
  /\ received[7] = 7

\* C16: a ReadSysPara reply is decoded with address from offsets 2..6, the
\* confirmation code from byte 9, the checksum from offsets 26..28, and from
\* the 16-byte block at 10..26 the big-endian fields status_register,
\* system_identifier_code, finger_library_size, security_level,
\* device_address and packet_size at block offsets 0..2, 2..4, 4..6, 6..8,
\* 8..12 and 12..14.
C16_ReadSysParaLayout ==
  DecodedAs("ReadSysPara", 28) =>
    /\ pc = "idle"
    /\ result.kind = "Ok"
    /\ result.reply.tag = "ReadSysPara"
    /\ result.reply.address = DwordAt(received, 2)
    /\ result.reply.confirmation_code = received[10]
    /\ result.reply.checksum = WordAt(received, 26)
    /\ LET sp == result.reply.system_parameters IN
         /\ sp.status_register = WordAt(received, 10)
         /\ sp.system_identifier_code = WordAt(received, 12)
         /\ sp.finger_library_size = WordAt(received, 14)
         /\ sp.security_level = WordAt(received, 16)
         /\ sp.device_address = DwordAt(received, 18)
         /\ sp.packet_size = WordAt(received, 22)

\* the reply of test_read_sys_para_deserialisation's shape decoded:
\* finger_library_size 200, security_level 3, packet_size 2
C16_Witness ==
  /\ DecodedAs("ReadSysPara", 28)
  /\ received = ReadSysParaReply
  /\ result.kind = "Ok"
  /\ result.reply.system_parameters.status_register = 4
  /\ result.reply.system_parameters.system_identifier_code = 9
  /\ result.reply.system_parameters.finger_library_size = 200
  /\ result.reply.system_parameters.security_level = 3
  /\ result.reply.system_parameters.device_address = U32(65535, 65535)
  /\ result.reply.system_parameters.packet_size = 2
  /\ result.reply.checksum = 1270

\* C17: baud_setting of a decoded ReadSysPara reply is the big-endian word
\* at block offsets 14..16 (packet offsets 24..26), whatever the
\* packet_size bytes at block offsets 12..14 are.
C17_BaudSettingOffset ==
  (DecodedAs("ReadSysPara", 28) /\ result.kind = "Ok") =>
    result.reply.system_parameters.baud_setting = WordAt(received, 24)

\* bit k of v is set
BitSet(v, k) == (v % (2^(k + 1))) >= 2^k

\* C18: busy(), has_finger_match(), password_ok() and has_valid_image()
\* are true exactly when bit 0, 1, 2, 3 of status_register is set; bits
\* 4..15 influence none of them (the four depend on the register modulo 16
\* only).
C18_StatusRegisterBits ==
  status_flags.read =>
    LET v == WordAt(received, 10)
        low == v % 16
    IN  /\ result.reply.system_parameters.status_register = v
        /\ status_flags.busy = BitSet(v, 0)
        /\ status_flags.has_finger_match = BitSet(v, 1)
        /\ status_flags.password_ok = BitSet(v, 2)
        /\ status_flags.has_valid_image = BitSet(v, 3)
        /\ status_flags.busy = (low \in {1, 3, 5, 7, 9, 11, 13, 15})
        /\ status_flags.has_finger_match = (low \in {2, 3, 6, 7, 10, 11, 14, 15})
        /\ status_flags.password_ok = (low \in {4, 5, 6, 7, 12, 13, 14, 15})
        /\ status_flags.has_valid_image = (low \in 8..15)

\* status register 0xFFF5: every bit of 4..15 set, bits 0 and 2 set, bits 1
\* and 3 clear; busy and password_ok answer true, the other two false
C18_Witness ==
  /\ status_flags.read
  /\ WordAt(received, 10) = 65525
  /\ status_flags.busy
  /\ ~status_flags.has_finger_match
  /\ status_flags.password_ok
  /\ ~status_flags.has_valid_image

\* C19: the numeric fields of the replies that carry any are big-endian
\* words at fixed offsets: Search has match_id at 10..12, match_score at
\* 12..14 and checksum at 14..16; Match has match_score at 10..12 and
\* checksum at 12..14; TemplateNum has template_num at 10..12 and checksum at
\* 12..14.
C19_NumericFieldOffsets ==
  /\ (DecodedAs("Search", 16) /\ result.kind = "Ok") =>
       /\ result.reply.tag = "Search"
       /\ result.reply.match_id = WordAt(received, 10)
       /\ result.reply.match_score = WordAt(received, 12)
       /\ result.reply.checksum = WordAt(received, 14)
  /\ (DecodedAs("Match", 14) /\ result.kind = "Ok") =>
       /\ result.reply.tag = "Match"
       /\ result.reply.match_score = WordAt(received, 10)
       /\ result.reply.checksum = WordAt(received, 12)
  /\ (DecodedAs("TemplateNum", 14) /\ result.kind = "Ok") =>
       /\ result.reply.tag = "TemplateNum"
       /\ result.reply.template_num = WordAt(received, 10)
       /\ result.reply.checksum = WordAt(received, 12)

\* a Search reply whose six field bytes are 0x41..0x46 decoded: match_id
\* 0x4142, match_score 0x4344, checksum 0x4546
C19_Witness ==
  /\ DecodedAs("Search", 16)
  /\ received = << 239, 1, 255, 255, 255, 255, 7, 0, 7, 0, 65, 66, 67, 68, 69, 70 >>
  /\ result.kind = "Ok"
  /\ result.reply.match_id = 16706
  /\ result.reply.match_score = 17220
  /\ result.reply.checksum = 17734

\* the capacity panic of write_cmd_bytes: send_command aborted while framing,
\* before any byte was written or read
CapacityAbort == pc = "aborted" /\ ~parsed /\ nreads = 0 /\ wire = << >>

\* C20: over any sequence of calls the transmit buffer holds at most 128
\* bytes, in fact at most 17, in every reachable state, and the capacity
\* abort of write_cmd_bytes is never taken.
C20_CmdBufferBounded ==
  /\ Len(cmd_buffer) <= CMD_BUFFER_CAPACITY
  /\ Len(cmd_buffer) <= 17
  /\ ~CapacityAbort

\* a second call, framing the longest command (Search, 17 bytes), after a
\* first call had filled the buffer
C20_Witness ==
  /\ calls = 2
  /\ pc = "write"
  /\ hist.failed \/ hist.succeeded
  /\ Tag(cur_cmd) = "Search"
  /\ Len(cmd_buffer) = 17


\* C21: while a call transmits, the transmit buffer holds exactly the one
\* packet of that call's command and the receive buffer is empty, whatever
\* earlier calls left in either buffer and however they ended.
C21_BuffersFreshWhileTransmitting ==
  pc \in {"write", "flush"} =>
    /\ received = << >>
    /\ Len(cmd_buffer) = PacketLen(Tag(cur_cmd))
    /\ SubSeq(cmd_buffer, 1, 2) = << 239, 1 >>
    /\ DwordAt(cmd_buffer, 2) = address
    /\ cmd_buffer[7] = 1
    /\ cmd_buffer[10] = Opcode(Tag(cur_cmd))
    /\ ParamsAre(cmd_buffer, cur_cmd)
    /\ cmd_buffer = prepare_cmd(EmptyWriter, address, cur_cmd).buf

\* the second call is writing its packet after the first call had failed
C21_Witness ==
  /\ calls = 2
  /\ hist.failed
  /\ hist.other_variant
  /\ pc = "write"
  /\ txi > 0
  /\ received = << >>
  /\ Len(cmd_buffer) = PacketLen(Tag(cur_cmd))


\* the current call met a transport error or returned a decode error
CallFailed == fault # NoFault \/ result.kind = "Err"

\* the transport operations of the current call: bytes written, the flush,
\* reads completed
TransportOps == << wire, flushed, nreads >>

\* C22: no retries. Within one call the bytes the transport accepted are a
\* prefix of the command packet, each handed over once and in buffer order;
\* the flush succeeds at most once (after it the call never writes or
\* flushes again); and once the call met a transport error or a decode error
\* it has returned and does no further write, flush or read.
C22_NoRetries ==
  /\ [](/\ txi <= Len(cmd_buffer)
        /\ wire = SubSeq(cmd_buffer, 1, txi)
        /\ flushed => (txi = Len(cmd_buffer) /\ pc \notin {"write", "flush"})
        /\ CallFailed => pc = "idle")
  /\ [][calls' = calls =>
          /\ wire' # wire =>
               /\ ~flushed
               /\ wire' = Append(wire, cmd_buffer[Len(wire) + 1])
          /\ flushed' # flushed => (~flushed /\ pc = "flush")
          /\ CallFailed => TransportOps' = TransportOps]_vars

\* a call that wrote its whole packet, flushed, read some bytes and then met
\* a read error has returned
C22_Witness ==
  /\ pc = "idle"
  /\ fault.side = "rx"
  /\ result.err = "RecvReadError"
  /\ wire = cmd_buffer
  /\ flushed
  /\ nreads > 1


\* the call stands at a transport operation it waits on
Waiting == pc \in {"write", "flush", "read_header", "read_body"}

\* a step in which a transport operation completed, with Ok or an error
Completion ==
  wire' # wire \/ flushed' # flushed \/ nreads' # nreads \/ fault' # fault

\* no timeout and no cancellation: a call leaves a transport operation it
\* waits on only in a step where that operation completes
OnlyCompletionsMoveTheCall == [][(Waiting /\ pc' # pc) => Completion]_vars

\* C23 as stated: no internal timeout or cancellation, and when every
\* transport operation the call waits on eventually completes, every call
\* eventually returns.
C23_EveryCallReturns ==
  /\ OnlyCompletionsMoveTheCall
  /\ InCall ~> (pc = "idle")

\* C23, amended: no internal timeout or cancellation, and when every
\* transport operation the call waits on eventually completes, every call
\* eventually ends: it returns to the caller, or it aborts in a panic.
C23_EveryCallEnds ==
  /\ OnlyCompletionsMoveTheCall
  /\ InCall ~> (pc = "idle" \/ pc = "aborted")

\* a call that waited on 12 writes, the flush and 28 reads has returned Ok
C23_Witness ==
  /\ pc = "idle"
  /\ calls > 0
  /\ Len(wire) = 12
  /\ flushed
  /\ nreads = 28
  /\ result.kind = "Ok"


\* the length the header in the receive buffer declares
DeclaredLength == WordAt(received, 7)

\* C24: when the reply header declares a length L with 9 + L > 1024, the
\* 1025th byte to arrive violates the capacity of the receive buffer and
\* send_command aborts, returning no Error value; when 9 + L <= 1024 the
\* receive buffer never exceeds 1024 bytes (and in no case does it hold
\* more).
C24_ReceiveCapacity ==
  /\ Len(received) <= 1024
  /\ (Len(received) >= REPLY_HEADER_LENGTH /\ nreads >= 1025 /\ fault = NoFault) =>
       /\ REPLY_HEADER_LENGTH + DeclaredLength > 1024
       /\ nreads = 1025
       /\ pc = "aborted"
       /\ result = Panic
       /\ ~parsed
  /\ (Len(received) >= REPLY_HEADER_LENGTH
      /\ REPLY_HEADER_LENGTH + DeclaredLength <= 1024) =>
       /\ pc # "aborted"
       /\ nreads <= REPLY_HEADER_LENGTH + DeclaredLength
  /\ (pc = "aborted" /\ ~parsed) => nreads = 1025

\* the header declared 1016 bytes, 1024 bytes were stored and the 1025th
\* aborted the call
C24_Witness ==
  /\ pc = "aborted"
  /\ Len(received) = 1024
  /\ DeclaredLength = 1016
  /\ nreads = 1025
  /\ result = Panic


\* C25: in every call the order is encode, transmit, receive, decode: no
\* byte is read from the receive side before every byte of the command
\* packet was written, in order, and the flush succeeded; and the reply is
\* not decoded before it was read whole.
C25_EncodeTransmitReceiveDecode ==
  /\ (pc \in {"read_header", "read_body"} \/ nreads > 0 \/ received # << >>) =>
       /\ flushed
       /\ wire = cmd_buffer
       /\ Len(cmd_buffer) = PacketLen(Tag(cur_cmd))
  /\ flushed => wire = cmd_buffer
  /\ (pc = "parse" \/ parsed) =>
       /\ flushed
       /\ wire = cmd_buffer
       /\ fault = NoFault
       /\ Len(received) >= REPLY_HEADER_LENGTH
       /\ Len(received) = REPLY_HEADER_LENGTH + DeclaredLength
  /\ (pc \in {"write", "flush"}) => (nreads = 0 /\ ~parsed)
  /\ (pc \in {"read_header", "read_body"}) => ~parsed

\* a Search call about to decode: its 17 bytes were written, the flush
\* succeeded, the 16 bytes of the reply were read
C25_Witness ==
  /\ pc = "parse"
  /\ ~parsed
  /\ Tag(cur_cmd) = "Search"
  /\ Len(wire) = 17
  /\ wire = cmd_buffer
  /\ flushed
  /\ nreads = 16
  /\ Len(received) = 16


\* the length of a well-formed reply to a command of this variant (the
\* variants whose decoders are in responses.rs)
ReplyLen(tag) ==
  CASE tag = "ReadSysPara" -> 28
    [] tag = "Search" -> 16
    [] tag = "Match" -> 14
    [] tag \in {"VfyPwd", "GenImg", "Img2Tz", "LoadChar"} -> 12

CodeDecoded == StatusKinds \cup {"ReadSysPara"}

\* a well-formed reply packet (type 0x07, declared length met, the length
\* its variant has, a status byte its decoder maps) was decoded
WellFormedReplyDecoded ==
  /\ DecodedReply
  /\ Tag(inflight_request.cmd) \in CodeDecoded
  /\ Len(received) = ReplyLen(Tag(inflight_request.cmd))
  /\ Tag(inflight_request.cmd) \in StatusKinds =>
       received[10] \in MappedStatus(Tag(inflight_request.cmd))

\* the last two bytes of the receive buffer are not the sum of the bytes from
\* offset 6 to the end of the parameters
BadChecksum ==
  WordAt(received, Len(received) - 2)
    # SumSeq(SubSeq(received, 7, Len(received) - 2)) % 65536

\* C26: the inbound checksum is never verified: a reply of packet type 0x07
\* whose checksum bytes are not the sum of its bytes from offset 6 to the end
\* of its parameters is decoded successfully all the same, and the checksum
\* field of the Reply carries the received checksum bytes unchanged.
C26_InboundChecksumNotVerified ==
  (WellFormedReplyDecoded /\ BadChecksum) =>
    /\ pc = "idle"
    /\ result.kind = "Ok"
    /\ result.reply.tag = Tag(inflight_request.cmd)
    /\ result.reply.checksum = WordAt(received, Len(received) - 2)

\* the GenImg reply with status 0x01 and checksum 0x0063 (the sum is 0x000B)
\* decoded to Ok with checksum 99
C26_Witness ==
  /\ WellFormedReplyDecoded
  /\ BadChecksum
  /\ Tag(inflight_request.cmd) = "GenImg"
  /\ received = << 239, 1, 255, 255, 255, 255, 7, 0, 3, 1, 0, 99 >>
  /\ result.kind = "Ok"
  /\ result.reply.checksum = 99


\* a reply was decoded successfully
DecodedOk == parsed /\ pc = "idle" /\ result.kind = "Ok"

\* C27 as stated: for every successfully decoded reply the checksum field is
\* the big-endian word of the final two bytes of the receive buffer, whatever
\* length the reply declared.
C27_ChecksumIsFinalTwoBytes ==
  DecodedOk => result.reply.checksum = WordAt(received, Len(received) - 2)

\* C27, amended: for every successfully decoded reply the checksum field is
\* the big-endian word at the fixed offset of its variant (10..12 for VfyPwd,
\* GenImg, Img2Tz and LoadChar, 12..14 for Match, 14..16 for Search, 26..28
\* for ReadSysPara); these are the final two bytes of the receive buffer
\* when the buffer has the length of the variant's reply, and not otherwise.
C27_ChecksumAtFixedOffset ==
  (DecodedOk /\ result.reply.tag \in CodeDecoded) =>
    /\ Len(received) >= ReplyLen(result.reply.tag)
    /\ result.reply.checksum = WordAt(received, ReplyLen(result.reply.tag) - 2)
    /\ Len(received) = ReplyLen(result.reply.tag) =>
         result.reply.checksum = WordAt(received, Len(received) - 2)

\* a 14-byte reply decoded for GenImg: the checksum field is 3, the word at
\* 10..12, and the final two bytes are 0x000F
C27_Witness ==
  /\ DecodedOk
  /\ result.reply.tag = "GenImg"
  /\ received = << 239, 1, 255, 255, 255, 255, 7, 0, 5, 0, 0, 3, 0, 15 >>
  /\ result.reply.checksum = 3
  /\ WordAt(received, Len(received) - 2) = 15


\* C28: when send_command has returned, with a reply or with any error, no
\* command is recorded as in flight; so every call starts from a state with
\* no command in flight.
C28_IdleHasNoCommandInFlight ==
  pc = "idle" => ~inflight_request.some


\* C29: the buffer parameter of Img2Tz, Search, LoadChar and Store goes on
\* the wire unchanged for every value 0..255: the driver neither rejects the
\* command nor rewrites the value, whether it is 1, 2 or anything else.
C29_BufferParameterUnchanged ==
  (calls > 0 /\ Tag(cur_cmd) \in {"Img2Tz", "Search", "LoadChar", "Store"}) =>
    /\ pc \in {"write", "flush"}
    /\ result = NoResult
    /\ Len(cmd_buffer) = PacketLen(Tag(cur_cmd))
    /\ cmd_buffer[11] = cur_cmd.buffer
    /\ wire = SubSeq(cmd_buffer, 1, Len(wire))
    /\ Len(wire) >= 11 => wire[11] = cur_cmd.buffer

\* LoadChar with buffer 200: byte 0xC8 has gone out at offset 10
C29_Witness ==
  /\ calls > 0
  /\ Tag(cur_cmd) = "LoadChar"
  /\ cur_cmd.buffer = 200
  /\ Len(wire) >= 11
  /\ wire[11] = 200


\* the status each reply kind gives for each byte it accepts
StatusName(tag, b) ==
  CASE b = 0 -> "Success"
    [] b = 1 -> "PacketError"
    [] tag = "GenImg" /\ b = 2 -> "FingerNotDetected"
    [] tag = "GenImg" /\ b = 3 -> "ImageNotCaptured"
    [] tag = "Img2Tz" /\ b = 6 -> "FingerprintImageDistorted"
    [] tag = "Img2Tz" /\ b = 7 -> "ProcessingFailed"
    [] tag = "Img2Tz" /\ b = 21 -> "InvalidInput"
    [] tag = "LoadChar" /\ b = 11 -> "IndexOutOfRange"
    [] tag = "LoadChar" /\ b = 12 -> "LibraryReadError"
    [] tag = "Match" /\ b = 8 -> "NoMatch"
    [] tag = "Search" /\ b = 9 -> "NoMatch"

\* the number of status codes of each reply kind
StatusCount(tag) ==
  CASE tag \in {"GenImg", "LoadChar"} -> 4
    [] tag = "Img2Tz" -> 5
    [] tag \in {"Match", "Search"} -> 3

\* C30: each status decoder is a closed injective mapping with exactly the
\* stated number of codes: GenImg accepts {0x00..0x03} (4 statuses), Img2Tz
\* {0x00, 0x01, 0x06, 0x07, 0x15} (5), LoadChar {0x00, 0x01, 0x0B
\* IndexOutOfRange, 0x0C LibraryReadError} (4), Match {0x00, 0x01, 0x08} (3),
\* Search {0x00, 0x01, 0x09} (3); 0x00 is Success and 0x01 PacketError in
\* all, and a reply with any other byte is not accepted (no status comes
\* out of it).
C30_StatusDecodersClosedInjective ==
  (parsed /\ inflight_request.some
   /\ Tag(inflight_request.cmd) \in {"GenImg", "Img2Tz", "LoadChar", "Match", "Search"}) =>
    LET tag == Tag(inflight_request.cmd)
        b == received[10]
    IN  /\ (result.kind = "Ok") = (b \in MappedStatus(tag))
        /\ Cardinality(MappedStatus(tag)) = StatusCount(tag)
        /\ Cardinality({ StatusName(tag, c) : c \in MappedStatus(tag) })
             = StatusCount(tag)
        /\ b \notin MappedStatus(tag) => (pc = "aborted" /\ result = Panic)
        /\ b \in MappedStatus(tag) =>
             /\ result.reply.tag = tag
             /\ result.reply.confirmation_code = StatusName(tag, b)
             /\ \A c \in MappedStatus(tag) :
                  StatusName(tag, c) = result.reply.confirmation_code => c = b

\* a LoadChar reply with status 0x0B decoded to IndexOutOfRange
C30_Witness ==
  /\ parsed
  /\ inflight_request.some
  /\ Tag(inflight_request.cmd) = "LoadChar"
  /\ received[10] = 11
  /\ result.kind = "Ok"
  /\ result.reply.confirmation_code = "IndexOutOfRange"


\* a reply packet (type 0x07), read whole, was handed to the decoder of a
\* command whose reply is longer than the bytes received
ShortReplyDecoded ==
  /\ parsed
  /\ inflight_request.some
  /\ Tag(inflight_request.cmd) \in CodeDecoded
  /\ Len(received) = REPLY_HEADER_LENGTH + DeclaredLength
  /\ received[7] = 7
  /\ Len(received) < ReplyLen(Tag(inflight_request.cmd))

\* C31: decode offsets are not checked against the received length: for a
\* reply of packet type 0x07 whose declared length is smaller than the
\* decoder of the in-flight command needs (length 0, or a ReadSysPara reply
\* of length 3), send_command aborts on an out-of-range index and returns no
\* Error value.
C31_ShortReplyAborts ==
  ShortReplyDecoded =>
    /\ pc = "aborted"
    /\ result = Panic
    /\ decoder_run = Tag(inflight_request.cmd)

\* ReadSysPara in flight and a 12-byte reply of length 3: the call aborted
C31_Witness ==
  /\ ShortReplyDecoded
  /\ calls > 0
  /\ nreads = 12
  /\ Tag(inflight_request.cmd) = "ReadSysPara"
  /\ received = StatusReply(0, 10)
  /\ pc = "aborted"


\* the bytes of the transmit buffer that compute_checksum sums: offset 6 up
\* to the checksum
SummedBytes == SubSeq(cmd_buffer, 7, Len(cmd_buffer) - 2)

\* the overflow panic of compute_checksum: send_command aborted while
\* framing, the buffer left without its checksum
OverflowAbort ==
  /\ pc = "aborted"
  /\ ~parsed
  /\ nreads = 0
  /\ wire = << >>

\* C32: the checksum accumulation cannot overflow 16 bits for any command,
\* parameter values and address: at most 9 bytes of at most 255 each are
\* summed, so the plain sum is the sum modulo 2^16 (it is what the packet
\* carries) and no overflow abort is taken.
C32_ChecksumNeverOverflows ==
  /\ ~OverflowAbort
  /\ pc = "write" =>
       /\ Len(SummedBytes) <= 9
       /\ \A i \in 1..Len(SummedBytes) : SummedBytes[i] <= 255
       /\ SumSeq(SummedBytes) <= 9 * 255
       /\ SumSeq(SummedBytes) < 65536
       /\ WordAt(cmd_buffer, Len(cmd_buffer) - 2) = SumSeq(SummedBytes)

\* Search with every parameter byte 0xFF: nine bytes summed, to 1288
C32_Witness ==
  /\ pc = "write"
  /\ cur_cmd = Search(255, 65535, 65535)
  /\ Len(SummedBytes) = 9
  /\ SumSeq(SummedBytes) = 1288
  /\ WordAt(cmd_buffer, 15) = 1288


\* C33: RecvUnsolicitedReply is unreachable through send_command: in any
\* sequence of calls a command is recorded in flight before the reply is
\* read and decoded, so no call returns RecvUnsolicitedReply.
C33_UnsolicitedReplyUnreachable ==
  /\ result.err # "RecvUnsolicitedReply"
  /\ (pc \in {"write", "flush", "read_header", "read_body", "parse"} \/ parsed) =>
       /\ inflight_request.some
       /\ inflight_request.cmd = cur_cmd

\* the first call of a driver is about to decode its reply, its command
\* recorded in flight
C33_Witness ==
  /\ calls = 1
  /\ pc = "parse"
  /\ Len(received) >= 7
  /\ inflight_request = Some(cur_cmd)


ForeignMagic == SubSeq(received, 1, 2) # << 239, 1 >>

\* the address bytes of the receive buffer are not the driver's address
ForeignAddress == DwordAt(received, 2) # address

\* C35: the inbound header magic and address are not validated: a packet
\* of type 0x07 whose first two bytes are not 0xEF 0x01, or whose address
\* differs from the driver's, is decoded successfully, and the address field
\* of the Reply is the received address, not the driver's.
C35_MagicAndAddressNotValidated ==
  (WellFormedReplyDecoded /\ (ForeignMagic \/ ForeignAddress)) =>
    /\ pc = "idle"
    /\ result.kind = "Ok"
    /\ result.reply.tag = Tag(inflight_request.cmd)
    /\ result.reply.address = DwordAt(received, 2)

\* a driver at 0xFFFFFFFF decoded a packet that starts AA 55 and carries
\* address 0x01020304: Ok, with address 0x01020304
C35_Witness ==
  /\ WellFormedReplyDecoded
  /\ calls > 0
  /\ address = DefaultAddress
  /\ received = << 170, 85, 1, 2, 3, 4, 7, 0, 3, 0, 0, 10 >>
  /\ ForeignMagic
  /\ ForeignAddress
  /\ result.kind = "Ok"
  /\ result.reply.address = U32(258, 772)


\* a step of the current call that took input from the receive line
TookInput == calls' = calls /\ nreads' # nreads /\ fault' = fault

\* C36: the packet type is checked only after the whole packet was consumed:
\* whenever send_command returns RecvWrongReplyType, exactly 9 + length bytes
\* of that packet were read from the transport, one at a time and in order,
\* and the next call leaves the line as it is, so it starts reading at the
\* byte that follows the packet.
C36_WrongTypeConsumesWholePacket ==
  /\ [](result.err = "RecvWrongReplyType" =>
          /\ pc = "idle"
          /\ parsed
          /\ Len(received) >= REPLY_HEADER_LENGTH
          /\ received[7] # 7
          /\ nreads = REPLY_HEADER_LENGTH + DeclaredLength
          /\ Len(received) = nreads)
  /\ [][TookInput =>
          /\ rx_line # << >>
          /\ received' = Append(received, Head(rx_line))
          /\ rx_line' = Tail(rx_line)]_vars
  /\ [][calls' # calls => rx_line' = rx_line]_vars

\* a call returned RecvWrongReplyType after the 12 bytes of a command
\* packet, and the reply that followed it is still whole on the line
C36_Witness ==
  /\ pc = "idle"
  /\ result = Err("RecvWrongReplyType", "none")
  /\ received = << 239, 1, 255, 255, 255, 255, 2, 0, 3, 85, 0, 90 >>
  /\ nreads = 12
  /\ rx_line = StatusReply(0, 10)


\* s is the beginning of t
IsPrefix(s, t) == Len(s) <= Len(t) /\ SubSeq(t, 1, Len(s)) = s

\* C37: the driver never resynchronises on the input stream: a new call
\* discards nothing that is unread on the line, every byte that leaves the
\* line is appended to the receive buffer (none is skipped in search of
\* 0xEF 0x01), and whatever the first 9 bytes are, they are taken as the
\* header, their bytes 7..9 as the length of the body; so after a call failed
\* with RecvReadError partway through a reply, the rest of that reply is
\* read as the header and body of the next call's reply.
C37_NoResynchronisation ==
  /\ [][calls' # calls => (rx_line' = rx_line /\ received' = << >>)]_vars
  /\ [][rx_line' # rx_line =>
          \/ /\ rx_line # << >>
             /\ rx_line' = Tail(rx_line)
             /\ received' = Append(received, Head(rx_line))
          \/ /\ received' = received
             /\ IsPrefix(rx_line, rx_line')]_vars
  /\ [](pc = "read_body" =>
          /\ Len(received) >= REPLY_HEADER_LENGTH
          /\ Len(received) + to_read = REPLY_HEADER_LENGTH + DeclaredLength)
  /\ [](pc = "read_header" => Len(received) + to_read = REPLY_HEADER_LENGTH)

\* the first call failed 15 bytes into the ReadSysPara reply; the second
\* call took bytes 15..24 of it as a header (length 2), bytes 24..26 as the
\* body, and is about to decode them; the last two bytes are still unread
C37_Witness ==
  /\ calls = 2
  /\ hist.failed
  /\ pc = "parse"
  /\ received = << 200, 0, 3, 255, 255, 255, 255, 0, 2, 0, 6 >>
  /\ nreads = 11
  /\ IsPrefix(<< 4, 246 >>, rx_line)


\* the two bytes of a 16-bit word, high byte first
WordBytes(w) == << w \div 256, w % 256 >>

\* the parameter bytes of a command, from its fields alone
ParamBytesOf(cmd) ==
  CASE cmd.tag = "VfyPwd" -> WordBytes(cmd.password.hi) \o WordBytes(cmd.password.lo)
    [] cmd.tag = "Img2Tz" -> << cmd.buffer >>
    [] cmd.tag = "Search" ->
         << cmd.buffer >> \o WordBytes(cmd.start_index) \o WordBytes(cmd.end_index)
    [] cmd.tag \in {"LoadChar", "Store"} -> << cmd.buffer >> \o WordBytes(cmd.index)
    [] cmd.tag = "DeletChar" ->
         WordBytes(cmd.start_index) \o WordBytes(cmd.num_to_delete)
    [] OTHER -> << >>

\* the packet of a command at an address, from these two alone
PacketOf(addr, cmd) ==
  LET summed == << 1 >> \o WordBytes(ParamSize(cmd) + 3)
                  \o << Opcode(cmd.tag) >> \o ParamBytesOf(cmd)
  IN  << 239, 1 >> \o WordBytes(addr.hi) \o WordBytes(addr.lo)
        \o summed \o WordBytes(SumSeq(summed) % 65536)

\* C38: the bytes send_command transmits are a function of the driver's
\* address and the command alone: in every call, whatever commands went
\* before, whatever replies or errors came back and whatever the buffers
\* held, the bytes handed to the transport are the beginning of one packet
\* determined by address and command, and all of it once the write loop is
\* through; so two drivers with the same address sending the same command
\* transmit the same bytes.
C38_TransmittedBytesDependOnAddressAndCommand ==
  calls > 0 =>
    /\ IsPrefix(wire, PacketOf(address, cur_cmd))
    /\ (pc \notin {"idle", "aborted", "write"} \/ flushed) =>
         wire = PacketOf(address, cur_cmd)

\* the second call of a driver, after a failed call of another command that
\* had read a reply, has written the whole packet of its command
C38_Witness ==
  /\ calls = 2
  /\ hist.failed
  /\ hist.other_variant
  /\ pc = "flush"
  /\ cur_cmd = Search(1, 0, 255)
  /\ wire = << 239, 1 >> \o WordBytes(address.hi) \o WordBytes(address.lo)
              \o << 1, 0, 8, 4, 1, 0, 0, 0, 255, 1, 13 >>


\* the fields of the driver other than the receive buffer
OtherFields == << address, cmd_buffer, inflight_request >>

\* C39: receiving and decoding leave the rest of the driver unchanged:
\* read_reply only appends to the receive buffer (at most the byte just
\* read) and changes neither the transmit buffer, the address nor the
\* in-flight command; parse_reply changes none of the four, whether it
\* returns a Reply, returns an error or aborts.
C39_ReceiveAndDecodeFrame ==
  /\ [][(pc \in {"read_header", "read_body"}) =>
          /\ OtherFields' = OtherFields
          /\ IsPrefix(received, received')
          /\ Len(received') <= Len(received) + 1
          /\ received' # received => (nreads' = nreads + 1)]_vars
  /\ [][pc = "parse" =>
          /\ OtherFields' = OtherFields
          /\ received' = received]_vars

\* parse_reply has returned an error; the buffers, the address and the
\* in-flight command are as they were when it was called
C39_Witness ==
  /\ parsed
  /\ pc = "idle"
  /\ result = Err("RecvWrongReplyType", "none")
  /\ received = << 239, 1, 255, 255, 255, 255, 2, 0, 3, 85, 0, 90 >>
  /\ cmd_buffer = PacketOf(address, cur_cmd)
  /\ inflight_request = Some(cur_cmd)

====
